---- MODULE Spec2Model ----
\* A model of mcp-latex-tools: the four operations clean_latex, compile_latex,
\* validate_latex and extract_pdf_info, each as the steps of its code over the
\* part of the world it touches (files, directories, the compiler process).
EXTENDS Integers, Sequences, FiniteSets, TLC

\* ---------------------------------------------------------------- bounds
\* Number of clean_latex calls made in one behaviour.
MaxCalls == 2

\* ------------------------------------------------- cleanup: names and paths
\* A file name is the sequence of its dot-separated components:
\* "paper.synctex.gz" is <<"paper", "synctex", "gz">>. An extension is the
\* sequence of its components without the dots: ".synctex.gz" is
\* <<"synctex", "gz">>, and the empty suffix "" is <<>>.
PaperTex == <<"paper", "tex">>
PaperAux == <<"paper", "aux">>
PaperPdf == <<"paper", "pdf">>
PaperSync == <<"paper", "synctex", "gz">>
OtherLog == <<"other", "log">>
Names == {PaperTex, PaperAux, PaperPdf, PaperSync, OtherLog}

\* pathlib's PurePath.suffix: the last dot-separated component of the name.
suffix(name) == IF Len(name) > 1 THEN <<name[Len(name)]>> ELSE <<>>
\* pathlib's PurePath.stem: the name without its suffix.
stem(name) == IF Len(name) > 1 THEN SubSeq(name, 1, Len(name) - 1) ELSE name

DEFAULT_CLEANUP_EXTENSIONS ==
    { <<"aux">>, <<"log">>, <<"out">>, <<"fls">>, <<"fdb_latexmk">>, <<"toc">>,
      <<"lof">>, <<"lot">>, <<"bbl">>, <<"blg">>, <<"nav">>, <<"snm">>,
      <<"vrb">>, <<"idx">>, <<"ilg">>, <<"ind">>, <<"glo">>, <<"gls">>,
      <<"glg">>, <<"synctex", "gz">>, <<"figlist">>, <<"fpl">>,
      <<"makefile">>, <<"run", "xml">> }

PROTECTED_EXTENSIONS ==
    { <<"tex">>, <<"pdf">>, <<"bib">>, <<"sty">>, <<"cls">>, <<"dtx">>,
      <<"ins">>, <<"png">>, <<"jpg">>, <<"jpeg">>, <<"gif">>, <<"svg">>,
      <<"eps">>, <<"ps">>, <<"txt">>, <<"md">>, <<"py">>, <<"sh">>, <<"bat">> }

\* Directories: the working directory, one subdirectory of it, and the backup
\* directories backup_<name>_<timestamp>, all created in the working directory.
Cwd == <<"cwd", <<>>, 0>>
Sub == <<"sub", <<>>, 0>>
NoDir == <<"none", <<>>, 0>>
BackupDir(name, ts) == <<"backup", name, ts>>
BackupStems == {<<>>, <<"sub">>, <<"paper">>}
BackupDirs == {BackupDir(n, ts) : n \in BackupStems, ts \in 1..MaxCalls}
Dirs == {Cwd, Sub} \cup BackupDirs
\* A file path is <<directory, name>>.
Paths == Dirs \X Names
NoPath == <<NoDir, <<>>>>

\* The files that may be there when a behaviour starts, besides paper.tex, and
\* the content of each (a number standing for the bytes of the file; no two
\* files start with the same bytes).
InitialSlots ==
    << <<Cwd, PaperTex>>, <<Cwd, PaperAux>>, <<Cwd, PaperPdf>>,
       <<Cwd, PaperSync>>, <<Cwd, OtherLog>>, <<Sub, PaperAux>> >>
InitialContent(p) == CHOOSE k \in 1..Len(InitialSlots) : InitialSlots[k] = p
OptionalSlots == {InitialSlots[k] : k \in 2..Len(InitialSlots)}

\* The path argument of clean_latex: None, "", a directory or a file of the
\* working directory.
NonePath == "<None>"
DirTargets == {".", "sub"}
FileTargets == {"paper.tex", "paper.aux"}
Targets == {NonePath, ""} \cup DirTargets \cup FileTargets
TargetDir(t) == IF t = "." THEN Cwd ELSE Sub
TargetFile(t) == IF t = "paper.tex" THEN <<Cwd, PaperTex>> ELSE <<Cwd, PaperAux>>
\* Path(".").name is "" and Path("sub").name is "sub".
TargetName(t) == IF t = "." THEN <<>> ELSE <<"sub">>
\* The explicit extension lists a caller passes; {} stands for None.
ExtensionLists == { {<<"aux">>, <<"pdf">>}, {<<"tex">>, <<"gz">>} }
ExtensionArgs == {{}} \cup {{l} : l \in ExtensionLists}

VARIABLES
    tool,        \* the tool the calls of this behaviour name
    fs,          \* cleanup: the files: path -> content, for the paths that exist
    backupDirs,  \* cleanup: the backup directories that exist
    clock,       \* cleanup: the wall clock when last read, in seconds
    perm,        \* cleanup: path -> what the file system lets be done with the
                 \*          file, for the files an operation was tried on
    env,         \* cleanup: "mkdir" / "glob" -> whether the file system lets
                 \*          it be done, once it was tried
    args,        \* cleanup: the arguments of the clean_latex calls
    ncalls,      \* cleanup: the number of clean_latex calls begun so far
    inv,         \* cleanup: executor thread -> the state of its latest call
    cargs,       \* compile: the arguments of the compile_latex calls
    cworld,      \* compile: the output directory and the files in it
    ccalls,      \* compile: the number of compile_latex calls begun so far
    comp,        \* compile: the state of the latest compile_latex call
    vargs,       \* validate: the arguments of the validate_latex call
    vtext,       \* validate: the file doc.tex: its text, one construct a line
    val,         \* validate: the state of the validate_latex call
    pargs,       \* pdf_info: the arguments of the extract_pdf_info call
    pdoc,        \* pdf_info: the file doc.pdf as the PDF reader finds it
    pinfo,       \* pdf_info: the state of the extract_pdf_info call
    pdf_date,    \* pdf_info: the argument of the _format_pdf_date call
    formatted,   \* pdf_info: the state of the _format_pdf_date call
    request,     \* server: the tool call: the tool name, the arguments, and
                 \*         what the operation does once it is run
    response,    \* server: the state of the call_tool call
    file_name,   \* utils: the name of the file that is classified
    file_type,   \* utils: the state of the classification
    latex_text,  \* utils: the text a text helper is called on, one
                 \*        construct a line
    text_check   \* utils: the state of the call of the text helper

cleanVars == <<fs, backupDirs, clock, perm, env, args, ncalls, inv>>
compileVars == <<cargs, cworld, ccalls, comp>>
validateVars == <<vargs, vtext, val>>
pdfVars == <<pargs, pdoc, pinfo>>
dateVars == <<pdf_date, formatted>>
\* The variables of the helpers that are called apart from the four tools.
serverVars == <<request, response>>
utilVars == <<file_name, file_type, latex_text, text_check>>
helperVars == <<dateVars, serverVars, utilVars>>
vars == <<tool, cleanVars, compileVars, validateVars, pdfVars, helperVars>>

\* The executor threads a clean_latex call may run on.
Threads == {"t1", "t2"}
\* Whether thread i runs no call: it never ran one, or its call has ended.
Free(i) == inv[i].pc \in {"idle", "done", "raised"}

\* ------------------------------------------------------ cleanup: helpers
exists(p) == p \in DOMAIN fs
\* The files with the file at p written with content c / with p removed.
written(p, c) == [q \in DOMAIN fs \cup {p} |-> IF q = p THEN c ELSE fs[q]]
removed(p) == [q \in DOMAIN fs \ {p} |-> fs[q]]

\* Path.exists() of the path argument; the two directories always exist.
path_exists(t) == t \in DirTargets \/ (t \in FileTargets /\ exists(TargetFile(t)))
path_is_file(t) == t \in FileTargets

\* The input validation of clean_latex: the message of the CleanupError it
\* raises, "" when it raises none.
clean_input_error(t) ==
    IF t = NonePath THEN "Path cannot be None"
    ELSE IF t = "" THEN "Path cannot be empty"
    ELSE IF ~path_exists(t) THEN "Path not found"
    ELSE ""

cleanup_extensions(extensions) ==
    IF extensions = {} THEN DEFAULT_CLEANUP_EXTENSIONS
    ELSE CHOOSE l \in extensions : TRUE

\* _create_backup_directory: path.parent / backup_<stem or name>_<timestamp>;
\* the parent of every target, "." included, is the working directory.
_create_backup_directory(t, ts) ==
    IF path_is_file(t) THEN BackupDir(stem(TargetFile(t)[2]), ts)
    ELSE BackupDir(TargetName(t), ts)

\* A variant of backup_dir_or_none that keeps the path of the backup
\* directory when its creation failed.
backup_dir_kept_on_failure(mkdir_ok, t, ts) == _create_backup_directory(t, ts)

\* The backup_dir of clean_latex after the try block around
\* _create_backup_directory: None when mkdir raised.
backup_dir_or_none(mkdir_ok, t, ts) ==
    IF mkdir_ok THEN _create_backup_directory(t, ts) ELSE NoDir

\* A variant of backup_requested that sets the backup directory up in a dry
\* run too.
backup_requested_in_dry_run(create_backup, dry_run) == create_backup

\* Whether clean_latex sets up a backup directory.
backup_requested(create_backup, dry_run) == create_backup /\ ~dry_run

\* directory.glob("*") / directory.glob("**/*"): the directories searched.
\* Every backup directory was created in the working directory.
glob_dirs(t, recursive) ==
    IF ~recursive THEN {TargetDir(t)}
    ELSE IF t = "." THEN {Cwd, Sub} \cup backupDirs
    ELSE {Sub}

find_auxiliary_files(t, recursive, extensions) ==
    { p \in DOMAIN fs :
        /\ p[1] \in glob_dirs(t, recursive)
        /\ suffix(p[2]) \in extensions
        /\ suffix(p[2]) \notin PROTECTED_EXTENSIONS }

\* _clean_tex_file_auxiliaries: the paths tex_dir / f"{tex_stem}{ext}" the loop
\* looks at. A path outside Paths never exists and is left out.
_clean_tex_file_auxiliaries(t, extensions) ==
    { p \in Paths :
        /\ p[1] = TargetFile(t)[1]
        /\ \E ext \in extensions : p[2] = stem(TargetFile(t)[2]) \o ext }

\* _clean_single_file: the file itself when its suffix is asked for.
_clean_single_file(t, extensions) ==
    IF suffix(TargetFile(t)[2]) \in extensions THEN {TargetFile(t)} ELSE {}

\* Whether the loop of _clean_tex_file_auxiliaries is the one running.
tex_mode(t) == path_is_file(t) /\ suffix(TargetFile(t)[2]) = <<"tex">>

\* The candidates of the targeting mode clean_latex selects.
candidates(t, recursive, extensions) ==
    IF tex_mode(t) THEN _clean_tex_file_auxiliaries(t, extensions)
    ELSE IF path_is_file(t) THEN _clean_single_file(t, extensions)
    ELSE find_auxiliary_files(t, recursive, extensions)

InitialResult ==
    [ success |-> FALSE, error_message |-> "None", tex_file_path |-> "None",
      directory_path |-> NoDir, cleaned_files_count |-> 0,
      cleaned_files |-> <<>>, would_clean_files |-> <<>>,
      dry_run |-> args.dry_run, recursive |-> args.recursive,
      backup_created |-> FALSE, backup_directory |-> NoDir ]

IdleCall ==
    [ pc |-> "idle", backup_dir |-> NoDir, todo |-> {}, cur |-> NoPath,
      result |-> [ success |-> FALSE, error_message |-> "None",
                   tex_file_path |-> "None", directory_path |-> NoDir,
                   cleaned_files_count |-> 0, cleaned_files |-> <<>>,
                   would_clean_files |-> <<>>, dry_run |-> FALSE,
                   recursive |-> FALSE, backup_created |-> FALSE,
                   backup_directory |-> NoDir ],
      attempted |-> {}, failed |-> {}, fs0 |-> <<>>, dirs0 |-> {},
      exc |-> "None" ]

\* What the file system answers for an operation on a directory, once asked,
\* it answers again.
env_answers(op) == IF op \in DOMAIN env THEN {env[op]} ELSE BOOLEAN
env_answered(e, op, ok) == [o \in DOMAIN e \cup {op} |-> IF o = op THEN ok ELSE e[o]]

\* datetime.now() to the second: the first call's second is numbered 1, and a
\* later call starts in the same second as the call before it or in a later
\* one (only whether two timestamps are equal matters, so one second later).
datetime_now == IF ncalls = 0 THEN {clock} ELSE {clock, clock + 1}

\* ------------------------------------------------------ cleanup: actions
\* clean_latex up to the candidate loop: input validation, the result record,
\* _create_backup_directory (mkdir may fail), the targeting mode, and in
\* directory mode find_auxiliary_files (the glob may raise, which clean_latex
\* catches and reports as a failed result).
clean_latex_begin(i) ==
    /\ tool = "clean_latex"
    /\ Free(i)
    /\ ncalls < MaxCalls
    /\ ncalls' = ncalls + 1
    /\ clock' \in datetime_now
    /\ LET t == args.path
           exts == cleanup_extensions(args.extensions)
       IN
       IF clean_input_error(t) # ""
       THEN /\ inv' = [inv EXCEPT ![i] = [IdleCall EXCEPT
                        !.pc = "raised", !.exc = "CleanupError",
                        !.fs0 = fs, !.dirs0 = backupDirs]]
            /\ UNCHANGED <<backupDirs, env>>
       ELSE \E mkdir_ok \in (IF backup_requested(args.create_backup, args.dry_run)
                             THEN env_answers("mkdir") ELSE {FALSE}),
               glob_ok \in (IF path_is_file(t) THEN {TRUE} ELSE env_answers("glob")) :
              LET b == backup_dir_or_none(mkdir_ok, t, clock')
                  r0 == [InitialResult EXCEPT
                           !.backup_directory = b,
                           !.error_message =
                               IF backup_requested(args.create_backup, args.dry_run)
                                  /\ ~mkdir_ok
                               THEN "Warning: Backup creation failed" ELSE "None",
                           !.tex_file_path = IF path_is_file(t) THEN t ELSE "None",
                           !.directory_path =
                               IF path_is_file(t) THEN TargetFile(t)[1]
                               ELSE TargetDir(t)]
              IN
              /\ backupDirs' = IF mkdir_ok THEN backupDirs \cup {b} ELSE backupDirs
              /\ env' = LET e == IF backup_requested(args.create_backup, args.dry_run)
                                 THEN env_answered(env, "mkdir", mkdir_ok) ELSE env
                        IN IF path_is_file(t) THEN e
                           ELSE env_answered(e, "glob", glob_ok)
              /\ IF glob_ok
                 THEN inv' = [inv EXCEPT ![i] = [IdleCall EXCEPT
                        !.pc = "loop", !.backup_dir = b, !.result = r0,
                        !.todo = candidates(t, args.recursive, exts),
                        !.fs0 = fs, !.dirs0 = backupDirs]]
                 ELSE inv' = [inv EXCEPT ![i] = [IdleCall EXCEPT
                        !.pc = "done", !.backup_dir = b,
                        !.result = [r0 EXCEPT !.error_message = "Cleanup failed"],
                        !.fs0 = fs, !.dirs0 = backupDirs]]
    /\ UNCHANGED <<fs, perm, args>>
    /\ UNCHANGED <<tool, helperVars, compileVars, validateVars, pdfVars>>

\* What the file system answers for a file, once asked, it answers again for
\* as long as the file is there.
perm_answers(f, fresh) == IF f \in DOMAIN perm THEN {perm[f]} ELSE fresh
answered(f, r) == [q \in DOMAIN perm \cup {f} |-> IF q = f THEN r ELSE perm[q]]
forgotten(f) == [q \in DOMAIN perm \ {f} |-> perm[q]]

\* A variant of unlink_and_record that records the file before the unlink,
\* so that a file whose unlink failed is listed too.
unlink_recorded_first(i, f, call) ==
    \E r \in perm_answers(f, {"ok", "nounlink"}) :
      LET recorded == [call EXCEPT
                         !.pc = "loop", !.cur = NoPath,
                         !.result.cleaned_files = Append(@, f),
                         !.result.cleaned_files_count = @ + 1]
      IN
      IF ~exists(f) \/ r = "nounlink"
         THEN /\ inv' = [inv EXCEPT ![i] = [recorded EXCEPT !.failed = @ \cup {f}]]
              /\ perm' = IF exists(f) THEN answered(f, r) ELSE perm
              /\ UNCHANGED fs
         ELSE /\ fs' = removed(f)
              /\ perm' = forgotten(f)
              /\ inv' = [inv EXCEPT ![i] = recorded]

\* file_path.unlink() and the recording of the cleaned file; an exception is
\* swallowed and ends the turn for this file.
unlink_and_record(i, f, call) ==
    \E r \in perm_answers(f, {"ok", "nounlink"}) :
      IF ~exists(f) \/ r = "nounlink"
         THEN /\ inv' = [inv EXCEPT ![i] = [call EXCEPT
                   !.pc = "loop", !.cur = NoPath, !.failed = @ \cup {f}]]
              /\ perm' = IF exists(f) THEN answered(f, r) ELSE perm
              /\ UNCHANGED fs
         ELSE /\ fs' = removed(f)
              /\ perm' = forgotten(f)
              /\ inv' = [inv EXCEPT ![i] = [call EXCEPT
                   !.pc = "loop", !.cur = NoPath,
                   !.result.cleaned_files = Append(@, f),
                   !.result.cleaned_files_count = @ + 1]]

\* A variant of copy_to_backup that goes on to the unlink whether or not the
\* copy was made: a failed copy leaves no backup file and the file is removed.
copy_failure_ignored(i, f, call) ==
    LET dst == <<call.backup_dir, f[2]>> IN
    \E r \in perm_answers(f, {"ok", "nocopy", "nounlink"}) :
      /\ fs' = IF ~exists(f) \/ f = dst \/ r = "nocopy" THEN fs
               ELSE written(dst, fs[f])
      /\ perm' = IF exists(f) THEN answered(f, r) ELSE perm
      /\ inv' = [inv EXCEPT ![i] = [call EXCEPT !.pc = "unlink", !.cur = f]]

\* shutil.copy2(file_path, backup_dir / file_path.name); an exception is
\* swallowed and ends the turn for this file, which is then not removed.
copy_to_backup(i, f, call) ==
    LET dst == <<call.backup_dir, f[2]>> IN
    \E r \in perm_answers(f, {"ok", "nocopy", "nounlink"}) :
      IF ~exists(f) \/ f = dst \/ r = "nocopy"
         THEN /\ inv' = [inv EXCEPT ![i] = [call EXCEPT
                   !.pc = "loop", !.cur = NoPath, !.failed = @ \cup {f}]]
              /\ perm' = IF exists(f) /\ f # dst THEN answered(f, r) ELSE perm
              /\ UNCHANGED fs
         ELSE /\ fs' = written(dst, fs[f])
              /\ perm' = answered(f, r)
              /\ inv' = [inv EXCEPT ![i] = [call EXCEPT !.pc = "unlink", !.cur = f]]

\* One turn of the candidate loop: the existence test of the .tex mode, then
\* _process_file_for_cleanup up to and including its first file system change
\* (the copy when there is a backup directory, the unlink otherwise).
_process_file_for_cleanup(i) ==
    /\ inv[i].pc = "loop"
    /\ \E f \in inv[i].todo :
         LET call == [inv[i] EXCEPT !.todo = @ \ {f}] IN
         IF tex_mode(args.path) /\ ~exists(f)
         THEN inv' = [inv EXCEPT ![i] = call] /\ UNCHANGED <<fs, perm>>
         ELSE IF call.result.dry_run
         THEN /\ inv' = [inv EXCEPT ![i] =
                   [call EXCEPT !.result.would_clean_files = Append(@, f)]]
              /\ UNCHANGED <<fs, perm>>
         ELSE IF call.backup_dir # NoDir
         THEN copy_to_backup(i, f, [call EXCEPT !.attempted = @ \cup {f}])
         ELSE unlink_and_record(i, f, [call EXCEPT !.attempted = @ \cup {f}])
    /\ UNCHANGED <<backupDirs, clock, env, args, ncalls>>
    /\ UNCHANGED <<tool, helperVars, compileVars, validateVars, pdfVars>>

\* The rest of _process_file_for_cleanup after the copy into the backup
\* directory: the unlink and the recording.
process_file_unlink(i) ==
    /\ inv[i].pc = "unlink"
    /\ unlink_and_record(i, inv[i].cur, inv[i])
    /\ UNCHANGED <<backupDirs, clock, env, args, ncalls>>
    /\ UNCHANGED <<tool, helperVars, compileVars, validateVars, pdfVars>>

\* The end of clean_latex after the loop.
clean_latex_return(i) ==
    /\ inv[i].pc = "loop"
    /\ inv[i].todo = {}
    /\ inv' = [inv EXCEPT
         ![i].pc = "done",
         ![i].result.backup_created =
             (inv[i].backup_dir # NoDir /\ inv[i].result.cleaned_files # <<>>),
         ![i].result.success = TRUE]
    /\ UNCHANGED <<fs, backupDirs, clock, perm, env, args, ncalls>>
    /\ UNCHANGED <<tool, helperVars, compileVars, validateVars, pdfVars>>

\* ------------------------------------------------------ compile: model
\* Number of compile_latex calls made in one behaviour.
MaxCompiles == 2

\* The tex_path and output_dir arguments: None, "", a file that is not there,
\* the source file doc.tex; None or the directory out.
TexPaths == {NonePath, "", "missing.tex", "doc.tex"}
OutputDirs == {NonePath, "out"}
\* The timeout argument: None or a number of seconds.
NoTimeout == "None"
Timeouts == {NoTimeout, "30"}

\* A file that is not there; otherwise a file of the output directory carries
\* the number of the call whose compiler run wrote it, 0 for a file that was
\* there before the first call.
Absent == -1
NoOutput == <<"None", "None">>
NoLog == <<"None", Absent>>

\* pdf_path = output_path / (tex_file.stem + ".pdf")
pdf_path(output_dir) ==
    <<IF output_dir = NonePath THEN "parent" ELSE output_dir, "doc.pdf">>

\* A variant of the success test that trusts the exit code alone.
exit_code_alone(returncode, pdf_exists) == returncode = 0

\* The success test of compile_latex.
compilation_succeeded(returncode, pdf_exists) == returncode = 0 /\ pdf_exists

IdleProc == [outcome |-> "none", returncode |-> 0, stderr |-> FALSE]
IdleCompile ==
    [ pc |-> "idle", exc |-> "None", validated |-> FALSE, proc |-> IdleProc,
      world0 |-> [outdir |-> FALSE, pdf |-> Absent, log |-> Absent],
      result |-> [ success |-> FALSE, output_path |-> NoOutput,
                   error_message |-> "None", log_content |-> NoLog,
                   compilation_time_seconds |-> FALSE ] ]

\* The input validation of compile_latex: the message of the
\* CompilationError it raises, "" when it raises none; "not tex_path" is
\* tested first and is true of None too.
compile_input_error(tex_path) ==
    IF tex_path = NonePath \/ tex_path = "" THEN "LaTeX file path cannot be empty"
    ELSE IF tex_path # "doc.tex" THEN "LaTeX file not found"
    ELSE ""

\* The record of a call that begins now.
BeginCompile == [IdleCompile EXCEPT !.world0 = cworld]

\* compile_latex up to the compiler run: input validation, then the output
\* directory and its mkdir(parents=True, exist_ok=True), which is made outside
\* the try block.
compile_latex_begin ==
    /\ tool = "compile_latex"
    /\ comp.pc \in {"idle", "done", "raised"}
    /\ ccalls < MaxCompiles
    /\ ccalls' = ccalls + 1
    /\ IF compile_input_error(cargs.tex_path) # ""
       THEN /\ comp' = [BeginCompile EXCEPT !.pc = "raised", !.exc = "CompilationError"]
            /\ UNCHANGED cworld
       ELSE IF cargs.output_dir # NonePath /\ ~cworld.outdir
       THEN \E mkdir_ok \in BOOLEAN :
              IF mkdir_ok
              THEN /\ cworld' = [cworld EXCEPT !.outdir = TRUE]
                   /\ comp' = [BeginCompile EXCEPT !.pc = "run", !.validated = TRUE]
              ELSE /\ UNCHANGED cworld
                   /\ comp' = [BeginCompile EXCEPT !.pc = "raised", !.exc = "OSError",
                                                  !.validated = TRUE]
       ELSE /\ UNCHANGED cworld
            /\ comp' = [BeginCompile EXCEPT !.pc = "run", !.validated = TRUE]
    /\ UNCHANGED <<tool, helperVars, cleanVars, validateVars, pdfVars, cargs>>

\* subprocess.run(cmd, ..., timeout=timeout): the compiler runs to an exit
\* code, is killed at the timeout, or is not started at all; a compiler that
\* ran may have written the PDF and the log.
compile_latex_run ==
    /\ comp.pc = "run"
    /\ \/ \E rc \in {0, 1}, wrote_pdf \in BOOLEAN, wrote_log \in BOOLEAN,
            stderr \in BOOLEAN :
            /\ comp' = [comp EXCEPT !.pc = "post",
                          !.proc = [outcome |-> "exit", returncode |-> rc,
                                    stderr |-> stderr]]
            /\ cworld' = [cworld EXCEPT
                            !.pdf = IF wrote_pdf THEN ccalls ELSE @,
                            !.log = IF wrote_log THEN ccalls ELSE @]
       \/ \E wrote_pdf \in BOOLEAN, wrote_log \in BOOLEAN :
            /\ cargs.timeout # NoTimeout
            /\ comp' = [comp EXCEPT !.pc = "post", !.proc.outcome = "timeout"]
            /\ cworld' = [cworld EXCEPT
                            !.pdf = IF wrote_pdf THEN ccalls ELSE @,
                            !.log = IF wrote_log THEN ccalls ELSE @]
       \/ \E e \in {"permission", "error"} :
            /\ comp' = [comp EXCEPT !.pc = "post", !.proc.outcome = e]
            /\ UNCHANGED cworld
    /\ UNCHANGED <<tool, helperVars, cleanVars, validateVars, pdfVars, cargs, ccalls>>

\* The rest of compile_latex: after a compiler that exited, the log is read
\* (a failed read gives the placeholder) and the result is built; the three
\* except branches build a failed result each.
compile_latex_return ==
    /\ comp.pc = "post"
    /\ IF comp.proc.outcome = "exit"
       THEN \E read_ok \in (IF cworld.log # Absent THEN BOOLEAN ELSE {TRUE}) :
              LET log_content ==
                    IF cworld.log = Absent THEN <<"", Absent>>
                    ELSE IF read_ok THEN <<"text", cworld.log>>
                    ELSE <<"Could not read log file", Absent>>
              IN
              IF compilation_succeeded(comp.proc.returncode, cworld.pdf # Absent)
              THEN comp' = [comp EXCEPT !.pc = "done",
                     !.result = [ success |-> TRUE,
                                  output_path |-> pdf_path(cargs.output_dir),
                                  error_message |-> "None",
                                  log_content |-> log_content,
                                  compilation_time_seconds |-> TRUE ]]
              ELSE comp' = [comp EXCEPT !.pc = "done",
                     !.result = [ success |-> FALSE,
                                  output_path |-> NoOutput,
                                  error_message |->
                                      IF comp.proc.stderr
                                      THEN "LaTeX compilation failed with return code: stderr"
                                      ELSE "LaTeX compilation failed with return code",
                                  log_content |-> log_content,
                                  compilation_time_seconds |-> TRUE ]]
       ELSE comp' = [comp EXCEPT !.pc = "done",
              !.result = [ success |-> FALSE,
                           output_path |-> NoOutput,
                           error_message |->
                               IF comp.proc.outcome = "timeout"
                               THEN "LaTeX compilation timed out"
                               ELSE IF comp.proc.outcome = "permission"
                               THEN "Permission denied during compilation"
                               ELSE "Unexpected error during compilation",
                           log_content |-> NoLog,
                           compilation_time_seconds |-> TRUE ]]
    /\ UNCHANGED <<tool, helperVars, cleanVars, validateVars, pdfVars, cargs, cworld, ccalls>>

\* ----------------------------------------------------- validate: texts
\* Number of lines of the validated text.
MaxLen == 4

\* The lines a text is made of: each line holds one construct, and no line
\* is empty.
DocClass == "\\documentclass{article}"
BeginDoc == "\\begin{document}"
EndDoc == "\\end{document}"
BeginAlign == "\\begin{align}"
EndAlign == "\\end{align}"
OpenBrace == "{"
CloseBrace == "}"
EscapedOpenBrace == "\\{"
EscapedCloseBrace == "\\}"
UseAmsmath == "\\usepackage{amsmath}"
Url == "\\url{x}"
Section == "\\section{A}"
UseUrl == "\\usepackage{url}"
UseHyperref == "\\usepackage{hyperref}"
Lines == { DocClass, BeginDoc, EndDoc, BeginAlign, EndAlign, OpenBrace,
           CloseBrace, UseAmsmath, Url, Section }
Texts == UNION { [1..n -> Lines] : n \in 0..MaxLen }
\* The texts made of brace lines, escaped ones included, and of one line
\* with a balanced pair.
BraceTexts ==
    UNION { [1..n -> {OpenBrace, CloseBrace, EscapedOpenBrace, EscapedCloseBrace,
                      DocClass}] : n \in 0..MaxLen }
\* The texts made of lines that use a command or an environment of the
\* table and of lines that declare a package.
PackageTexts ==
    UNION { [1..n -> {Url, BeginAlign, UseAmsmath, UseUrl, UseHyperref}] :
              n \in 0..MaxLen }
\* A file that exists and cannot be read as text.
Unreadable == <<"unreadable">>

\* The '{' and '}' characters of a line, in order; the scan of validate_latex
\* looks at every character, the brace of an escaped \{ or \} included.
brace_chars(line) ==
    CASE line = OpenBrace -> <<"{">>
      [] line = CloseBrace -> <<"}">>
      [] line = EscapedOpenBrace -> <<"{">>
      [] line = EscapedCloseBrace -> <<"}">>
      [] OTHER -> <<"{", "}">>

\* The name X of a line \begin{X} / \end{X}; "" for any other line.
begin_name(line) ==
    CASE line = BeginDoc -> "document" [] line = BeginAlign -> "align" [] OTHER -> ""
end_name(line) ==
    CASE line = EndDoc -> "document" [] line = EndAlign -> "align" [] OTHER -> ""

\* The command or environment a line uses in the sense of the pattern
\* \\(begin\s*\{)?<command>; "" for a line that uses none.
used_command(line) ==
    CASE line = BeginAlign -> "align" [] line = Url -> "url" [] OTHER -> ""

\* The words that follow "\usepackage{" in a line; <<>> for any other line.
usepackage_words(line) ==
    CASE line = UseAmsmath -> <<"amsmath">>
      [] line = UseUrl -> <<"url">>
      [] line = UseHyperref -> <<"hyperref">>
      [] OTHER -> <<>>

\* The table of validate_latex, in its order: command -> the text that must
\* follow "\usepackage{", as words.
package_commands ==
    << <<"tikzpicture", <<"tikz">>>>,
       <<"includegraphics", <<"graphicx">>>>,
       <<"href", <<"hyperref">>>>,
       <<"url", <<"url", "or", "hyperref">>>>,
       <<"lstlisting", <<"listings">>>>,
       <<"algorithm", <<"algorithm">>>>,
       <<"align", <<"amsmath">>>>,
       <<"gather", <<"amsmath">>>>,
       <<"multirow", <<"multirow">>>>,
       <<"multicolumn", <<"array", "or", "tabularx">>>> >>

\* ------------------------------------------------- validate: the checks
has_line(content, line) == \E i \in 1..Len(content) : content[i] = line

\* re.search(rf"\\usepackage.*\{{{package}", content)
package_included(content, package) ==
    \E i \in 1..Len(content) :
        /\ Len(usepackage_words(content[i])) >= Len(package)
        /\ SubSeq(usepackage_words(content[i]), 1, Len(package)) = package

\* The three checks for the basic structure.
structure_errors(content) ==
    (IF has_line(content, DocClass) THEN <<>>
     ELSE << <<"Missing \\documentclass command", "">> >>)
    \o (IF has_line(content, BeginDoc) THEN <<>>
        ELSE << <<"Missing \\begin{document}", "">> >>)
    \o (IF has_line(content, EndDoc) THEN <<>>
        ELSE << <<"Missing \\end{document}", "">> >>)

RECURSIVE all_brace_chars(_)
all_brace_chars(content) ==
    IF content = <<>> THEN <<>>
    ELSE brace_chars(Head(content)) \o all_brace_chars(Tail(content))

\* The scan for unmatched braces: it stops at the first character that makes
\* the count negative.
RECURSIVE scan_braces(_, _)
scan_braces(chars, brace_count) ==
    IF chars = <<>> THEN [brace_count |-> brace_count, broke |-> FALSE]
    ELSE LET c == IF Head(chars) = "{" THEN brace_count + 1 ELSE brace_count - 1
         IN IF c < 0 THEN [brace_count |-> c, broke |-> TRUE]
            ELSE scan_braces(Tail(chars), c)

brace_errors(content) ==
    LET scan == scan_braces(all_brace_chars(content), 0) IN
    (IF scan.broke THEN << <<"Unmatched closing brace }", "">> >> ELSE <<>>)
    \o (IF scan.brace_count > 0
        THEN << <<"Unmatched opening braces: unclosed", ToString(scan.brace_count)>> >>
        ELSE IF scan.brace_count < 0
        THEN << <<"Unmatched closing braces: extra", ToString(0 - scan.brace_count)>> >>
        ELSE <<>>)

\* re.findall of the \begin{X} names, and of the \end{X} names, in text order.
RECURSIVE begin_names(_)
begin_names(content) ==
    IF content = <<>> THEN <<>>
    ELSE (IF begin_name(Head(content)) = "" THEN <<>> ELSE <<begin_name(Head(content))>>)
         \o begin_names(Tail(content))
RECURSIVE end_names(_)
end_names(content) ==
    IF content = <<>> THEN <<>>
    ELSE (IF end_name(Head(content)) = "" THEN <<>> ELSE <<end_name(Head(content))>>)
         \o end_names(Tail(content))

has_begin(content, name) == \E i \in 1..Len(content) : begin_name(content[i]) = name
has_end(content, name) == \E i \in 1..Len(content) : end_name(content[i]) = name

\* One error for each \begin{X} of a text that holds no \end{X} at all, then
\* one for each \end{X} of a text that holds no \begin{X} at all.
RECURSIVE unclosed_errors(_, _)
unclosed_errors(names, content) ==
    IF names = <<>> THEN <<>>
    ELSE (IF has_end(content, Head(names)) THEN <<>>
          ELSE << <<"Unclosed environment", Head(names)>> >>)
         \o unclosed_errors(Tail(names), content)
RECURSIVE unopened_errors(_, _)
unopened_errors(names, content) ==
    IF names = <<>> THEN <<>>
    ELSE (IF has_begin(content, Head(names)) THEN <<>>
          ELSE << <<"Environment ended without begin", Head(names)>> >>)
         \o unopened_errors(Tail(names), content)

\* A variant of environment_errors that minds the order: a \begin{X} wants
\* an \end{X} after it, an \end{Y} a \begin{Y} before it.
environment_errors_in_order(content) ==
    LET idx == [i \in 1..Len(content) |-> i]
        unclosed == SelectSeq(idx, LAMBDA i :
            /\ begin_name(content[i]) # ""
            /\ \A j \in (i + 1)..Len(content) :
                   end_name(content[j]) # begin_name(content[i]))
        unopened == SelectSeq(idx, LAMBDA i :
            /\ end_name(content[i]) # ""
            /\ \A j \in 1..(i - 1) :
                   begin_name(content[j]) # end_name(content[i]))
    IN [k \in 1..Len(unclosed) |->
            <<"Unclosed environment", begin_name(content[unclosed[k]])>>]
       \o [k \in 1..Len(unopened) |->
            <<"Environment ended without begin", end_name(content[unopened[k]])>>]

environment_errors(content) ==
    unclosed_errors(begin_names(content), content)
    \o unopened_errors(end_names(content), content)

\* The warnings for commands whose package is not included (skipped in quick
\* mode).
RECURSIVE package_warnings(_, _)
package_warnings(table, content) ==
    IF table = <<>> THEN <<>>
    ELSE (IF /\ \E i \in 1..Len(content) : used_command(content[i]) = Head(table)[1]
             /\ ~package_included(content, Head(table)[2])
          THEN << <<"Command/environment used but package not included", Head(table)[1]>> >>
          ELSE <<>>)
         \o package_warnings(Tail(table), content)

\* The strict mode checks; a text of the model has no empty line, so the
\* pattern \n\n\n+ finds nothing.
strict_warnings(content) ==
    (IF /\ has_line(content, "\\title{T}")
        /\ has_line(content, "\\author{B}")
        /\ ~has_line(content, "\\maketitle")
     THEN << <<"Title and author defined but \\maketitle not called", "">> >>
     ELSE <<>>)
    \o (IF has_line(content, Section) THEN <<>>
        ELSE << <<"No section structure found in document", "">> >>)

collect_errors(content) ==
    structure_errors(content) \o brace_errors(content) \o environment_errors(content)

collect_warnings(content, quick, strict) ==
    (IF quick THEN <<>> ELSE package_warnings(package_commands, content))
    \o (IF strict THEN strict_warnings(content) ELSE <<>>)

\* "; ".join(errors) if errors else None
NoMessage == <<"None">>
joined(errors) == <<"str">> \o [i \in 1..Len(errors) |-> errors[i][1]]

\* A variant of validation_result in which a warning makes the text invalid.
validation_result_minding_warnings(errors, warnings) ==
    [ is_valid |-> Len(errors) = 0 /\ Len(warnings) = 0,
      error_message |-> IF errors # <<>> THEN joined(errors) ELSE NoMessage,
      errors |-> errors,
      warnings |-> warnings,
      validation_time_seconds |-> TRUE ]

\* The validity, the error message and the returned ValidationResult.
validation_result(errors, warnings) ==
    [ is_valid |-> Len(errors) = 0,
      error_message |-> IF errors # <<>> THEN joined(errors) ELSE NoMessage,
      errors |-> errors,
      warnings |-> warnings,
      validation_time_seconds |-> TRUE ]

\* ----------------------------------------------------- validate: action
ValidatePaths == {NonePath, "", "missing.tex", "doc.tex"}

\* A variant of the input validation of validate_latex that lets quick and
\* strict pass together.
input_error_modes_unchecked(file_path, quick, strict) ==
    IF file_path = NonePath THEN "File path cannot be None"
    ELSE IF file_path = "" THEN "File path cannot be empty"
    ELSE IF file_path # "doc.tex" THEN "File not found"
    ELSE ""

\* The input validation of validate_latex: the message of the ValidationError
\* it raises, "" when it raises none.
validate_input_error(file_path, quick, strict) ==
    IF file_path = NonePath THEN "File path cannot be None"
    ELSE IF file_path = "" THEN "File path cannot be empty"
    ELSE IF quick /\ strict
    THEN "Cannot use both quick and strict modes simultaneously"
    ELSE IF file_path # "doc.tex" THEN "File not found"
    ELSE ""

NoValidation ==
    [ is_valid |-> FALSE, error_message |-> NoMessage, errors |-> <<>>,
      warnings |-> <<>>, validation_time_seconds |-> FALSE ]
IdleValidate ==
    [pc |-> "idle", exc |-> "None", message |-> "", read |-> FALSE,
     result |-> NoValidation]

\* validate_latex as a whole: input validation, read_text, the checks, the
\* result.
validate_latex ==
    /\ tool = "validate_latex"
    /\ val.pc = "idle"
    /\ LET error == validate_input_error(vargs.file_path, vargs.quick, vargs.strict) IN
       IF error # ""
       THEN val' = [val EXCEPT !.pc = "raised", !.exc = "ValidationError",
                               !.message = error]
       ELSE IF vtext = Unreadable
       THEN val' = [val EXCEPT !.pc = "raised", !.exc = "ValidationError",
                               !.message = "Failed to read file", !.read = TRUE]
       ELSE val' = [val EXCEPT !.pc = "done", !.read = TRUE,
                      !.result = validation_result(
                          collect_errors(vtext),
                          collect_warnings(vtext, vargs.quick, vargs.strict))]
    /\ UNCHANGED <<tool, helperVars, cleanVars, compileVars, pdfVars, vargs, vtext>>

\* ------------------------------------------------------ pdf_info: model
\* Number of pages of the PDF document.
MaxPages == 2

PdfPaths == {NonePath, "", "missing.pdf", "doc.pdf"}
NoPassword == "None"
Passwords == {NoPassword, "pw"}

\* A page: whether its mediabox can be read, whether its text can be
\* extracted.
Pages == [box_ok : BOOLEAN, text_ok : BOOLEAN]
PageLists == UNION { [1..n -> Pages] : n \in 0..MaxPages }

\* The file doc.pdf: what stat() and open() give, whether the reader takes it
\* for a PDF, whether it is encrypted, what decrypt(password) does, whether
\* the pages of an encrypted document can be read without the right password
\* (its user password is empty), its metadata and its pages.
Documents ==
    [ access : {"ok", "denied"}, kind : {"pdf", "garbage", "unreadable"},
      encrypted : BOOLEAN, decrypt : {"ok", "wrong", "raises"},
      open_to_all : BOOLEAN, metadata : BOOLEAN, pages : PageLists ]

\* The input validation of extract_pdf_info, path.stat() included: the
\* message of the PDFInfoError it raises, "" when it raises none.
pdf_input_error(file_path, access) ==
    IF file_path = NonePath THEN "File path cannot be None"
    ELSE IF file_path = "" THEN "File path cannot be empty"
    ELSE IF file_path # "doc.pdf" THEN "File not found"
    ELSE IF access # "ok" THEN "Cannot access file"
    ELSE ""

DefaultDimensions == [width |-> 612, height |-> 792, unit |-> "pt"]
MediaboxDimensions == [width |-> 595, height |-> 842, unit |-> "pt"]
NoText == <<"None">>

InitialInfo(file_path) ==
    [ success |-> FALSE, error_message |-> "None", file_path |-> file_path,
      page_count |-> 0, page_dimensions |-> <<>>, is_encrypted |-> FALSE,
      is_linearized |-> "None", metadata |-> FALSE, text_content |-> NoText,
      extraction_time_seconds |-> FALSE ]
IdleInfo ==
    [pc |-> "idle", exc |-> "None", message |-> "", opened |-> FALSE,
     result |-> InitialInfo(NonePath)]

\* Whether the reader hands out the pages: an encrypted document must have
\* been decrypted, by the password or because it is open to everybody.
pages_readable(doc, password) ==
    \/ ~doc.encrypted
    \/ doc.open_to_all
    \/ password # NoPassword /\ doc.decrypt = "ok"

page_dimensions(pages) ==
    [i \in 1..Len(pages) |->
        IF pages[i].box_ok THEN MediaboxDimensions ELSE DefaultDimensions]

\* The text of the pages with the pages left out whose extraction failed.
text_content_without_failed_pages(pages) ==
    LET ok == SelectSeq(pages, LAMBDA page : page.text_ok)
    IN [i \in 1..Len(ok) |-> "text"]

text_content(pages) ==
    [i \in 1..Len(pages) |-> IF pages[i].text_ok THEN "text" ELSE ""]

\* The result of a read that ran to the end of the try block.
extracted(result, doc, include_text) ==
    [result EXCEPT !.success = TRUE,
                   !.is_encrypted = doc.encrypted,
                   !.page_count = Len(doc.pages),
                   !.metadata = doc.metadata,
                   !.page_dimensions = page_dimensions(doc.pages),
                   !.text_content = IF include_text THEN text_content(doc.pages)
                                    ELSE NoText,
                   !.is_linearized = "False",
                   !.extraction_time_seconds = TRUE]

\* extract_pdf_info as a whole.
extract_pdf_info ==
    /\ tool = "extract_pdf_info"
    /\ pinfo.pc = "idle"
    /\ LET error == pdf_input_error(pargs.file_path, pdoc.access)
           result == InitialInfo(pargs.file_path)
           failed(message, encrypted) ==
               [pinfo EXCEPT !.pc = "done", !.opened = TRUE,
                  !.result = [result EXCEPT !.error_message = message,
                                            !.is_encrypted = encrypted,
                                            !.extraction_time_seconds = TRUE]]
       IN
       IF error # ""
       THEN pinfo' = [pinfo EXCEPT !.pc = "raised", !.exc = "PDFInfoError",
                                   !.message = error]
       ELSE IF pdoc.kind = "unreadable"
       THEN pinfo' = failed("Failed to read PDF", FALSE)
       ELSE IF pdoc.kind = "garbage"
       THEN pinfo' = failed("Not a valid PDF file", FALSE)
       ELSE IF pdoc.encrypted /\ pargs.password # NoPassword /\ pdoc.decrypt = "raises"
       THEN pinfo' = failed("Failed to decrypt PDF", TRUE)
       ELSE IF ~pages_readable(pdoc, pargs.password)
       THEN \E message \in {"Not a valid PDF file", "Failed to read PDF"} :
              pinfo' = failed(message, TRUE)
       ELSE pinfo' = [pinfo EXCEPT !.pc = "done", !.opened = TRUE,
                        !.result = extracted(result, pdoc, pargs.include_text)]
    /\ UNCHANGED <<tool, helperVars, cleanVars, compileVars, validateVars, pargs, pdoc>>

\* ------------------------------------------------ pdf_info: date strings
\* A string is the sequence of its characters; None is NoDate, which is no
\* sequence of characters.
NoDate == <<"None">>
DatePrefix == <<"D", ":">>

\* The date strings of the calls: a real date and time, two more with the
\* month 13 and with letters for the month, each cut after any number of
\* characters, with or without the prefix D:, the full ones followed by one
\* of the time zone parts; and the empty string and None.
DateBodies ==
    { <<"2","0","2","3","1","2","0","1","1","4","3","0","0","0">>,
      <<"1","9","9","9","0","2","2","8","2","3","5","9","5","9">>,
      <<"2","0","2","3","1","3","0","1","1","4","3","0","0","0">>,
      <<"2","0","2","3","A","B","0","1","1","4","3","0","0","0">> }
TimeZones ==
    { <<>>, <<"Z">>, <<"+","0","5","'","3","0","'">>,
      <<"-","0","8","'","0","0","'">>, <<"+","0","5","'","3","0">>,
      <<"+","0","5">>, <<"+","5">>, <<"-">>, <<"+","0","'","3","'">> }
PdfDates ==
    {NoDate}
      \cup { pre \o SubSeq(body, 1, n) :
               pre \in {<<>>, DatePrefix}, body \in DateBodies, n \in 0..13 }
      \cup { pre \o body \o tz :
               pre \in {<<>>, DatePrefix}, body \in DateBodies, tz \in TimeZones }

\* Python's str[a:b] for 0 <= a <= b: the characters a+1 .. b, as far as the
\* string goes.
slice(str, a, b) == SubSeq(str, a + 1, IF b < Len(str) THEN b ELSE Len(str))
\* Python's str.index(ch) for a character that occurs in str (0-based).
index(str, ch) ==
    (CHOOSE i \in 1..Len(str) :
        str[i] = ch /\ \A j \in 1..(i - 1) : str[j] # ch) - 1

\* The time zone part of _format_pdf_date with only the hours read.
timezone_str_hours_only(tz_part) ==
    IF tz_part # <<>> /\ tz_part[1] \in {"+", "-"}
       THEN <<tz_part[1]>>
              \o (IF Len(tz_part) > 2 THEN slice(tz_part, 1, 3) ELSE <<"0", "0">>)
              \o <<":", "0", "0">>
       ELSE <<"Z">>

\* The time zone part of _format_pdf_date: what it makes of the characters
\* after the first fourteen.
timezone_str(tz_part) ==
    IF tz_part # <<>> /\ tz_part[1] \in {"+", "-"}
       THEN LET tz_sign == <<tz_part[1]>>
                tz_hours == IF Len(tz_part) > 2 THEN slice(tz_part, 1, 3)
                            ELSE <<"0", "0">>
                has_quote == \E i \in 1..Len(tz_part) : tz_part[i] = "'"
                tz_mins ==
                    IF has_quote /\ Len(tz_part) > index(tz_part, "'") + 2
                       THEN slice(tz_part, index(tz_part, "'") + 1,
                                  index(tz_part, "'") + 3)
                       ELSE <<"0", "0">>
            IN tz_sign \o tz_hours \o <<":">> \o tz_mins
       ELSE <<"Z">>

\* _format_pdf_date: no step of it raises on a string, so its except branch
\* is never taken.
_format_pdf_date(date) ==
    IF date = NoDate \/ date = <<>> THEN NoDate
    ELSE LET stripped == IF Len(date) >= 2 /\ SubSeq(date, 1, 2) = DatePrefix
                            THEN slice(date, 2, Len(date))
                            ELSE date
             year == slice(stripped, 0, 4)
             month == slice(stripped, 4, 6)
             day == slice(stripped, 6, 8)
             hour == slice(stripped, 8, 10)
             minute == slice(stripped, 10, 12)
             second == slice(stripped, 12, 14)
         IN IF Len(stripped) >= 14
               THEN year \o <<"-">> \o month \o <<"-">> \o day \o <<"T">>
                      \o hour \o <<":">> \o minute \o <<":">> \o second
                      \o timezone_str(slice(stripped, 14, Len(stripped)))
            ELSE IF Len(stripped) >= 8
               THEN year \o <<"-">> \o month \o <<"-">> \o day
                      \o <<"T","0","0",":","0","0",":","0","0","Z">>
            ELSE NoDate

IdleDate == [pc |-> "idle", value |-> NoDate]

\* One call of _format_pdf_date.
format_pdf_date ==
    /\ tool = "_format_pdf_date"
    /\ formatted.pc = "idle"
    /\ formatted' = [pc |-> "done", value |-> _format_pdf_date(pdf_date)]
    /\ UNCHANGED <<tool, cleanVars, compileVars, validateVars, pdfVars, serverVars, utilVars, pdf_date>>

\* ------------------------------------------------- server: the dispatcher
\* The tool names of the requests: the four the server knows, and two others.
ToolNames == {"compile_latex", "validate_latex", "pdf_info", "cleanup"}
RequestNames == ToolNames \cup {"unknown_tool", ""}

\* The arguments of a request: None, a mapping without the required key, a
\* mapping with it, and a value that is no mapping (a list).
Arguments == {"None", "empty", "given", "list"}
\* What the operation does when the handler runs it: it returns a result,
\* raises the error of its tool, or raises something else.
Outcomes == {"success", "failure", "tool_error", "other_error"}
Messages == {"File not found", "boom"}
Requests == [name : RequestNames, arguments : Arguments, outcome : Outcomes,
             message : Messages]

\* The argument each handler asks for.
required_argument(name) ==
    CASE name = "compile_latex" -> "tex_path"
      [] name = "validate_latex" -> "file_path"
      [] name = "pdf_info" -> "file_path"
      [] name = "cleanup" -> "path"
\* The words each handler puts before the message of its tool's error.
tool_error_prefix(name) ==
    CASE name = "compile_latex" -> "Compilation error: "
      [] name = "validate_latex" -> "Validation error: "
      [] name = "pdf_info" -> "PDF info error: "
      [] name = "cleanup" -> "Cleanup error: "

\* A text is the sequence of the pieces it is put together from; a
\* CallToolResult is the sequence of its content items, each a text.
CallToolResult(text) == <<text>>
NoResult == <<>>
IdleResponse == [pc |-> "idle", result |-> NoResult, exc |-> <<>>, ran |-> FALSE]

\* call_tool up to the handler: an unknown name raises ValueError inside the
\* try block.
call_tool_begin ==
    /\ tool = "call_tool"
    /\ response.pc = "idle"
    /\ response' =
         IF request.name \in ToolNames
            THEN [response EXCEPT !.pc = "handler"]
            ELSE [response EXCEPT !.pc = "escaped",
                                  !.exc = <<"Unknown tool: ", request.name>>]
    /\ UNCHANGED <<tool, cleanVars, compileVars, validateVars, pdfVars, dateVars, utilVars, request>>

\* handle_<tool> up to the executor: args.get on a value that is no mapping
\* raises outside the try block of the handler.
handle_begin ==
    /\ tool = "call_tool"
    /\ response.pc = "handler"
    /\ response' =
         IF request.arguments = "list"
            THEN [response EXCEPT !.pc = "escaped",
                     !.exc = <<"'list' object has no attribute 'get'">>]
         ELSE IF request.arguments \in {"None", "empty"}
            THEN [response EXCEPT !.pc = "done",
                     !.result = CallToolResult(
                         <<"Error: ", required_argument(request.name),
                           " is required">>)]
         ELSE [response EXCEPT !.pc = "executor"]
    /\ UNCHANGED <<tool, cleanVars, compileVars, validateVars, pdfVars, dateVars, utilVars, request>>

\* handle_<tool> from the executor on: the operation has run; its result is
\* formatted, its exceptions are caught by the handler.
handle_return ==
    /\ tool = "call_tool"
    /\ response.pc = "executor"
    /\ LET text ==
             CASE request.outcome = "success" -> <<"successful: ", request.name>>
               [] request.outcome = "failure" ->
                    <<"failed: ", request.name, "Error: ", request.message>>
               [] request.outcome = "tool_error" ->
                    <<tool_error_prefix(request.name), request.message>>
               [] request.outcome = "other_error" ->
                    <<"Unexpected error: ", request.message>>
       IN response' = [response EXCEPT !.pc = "done", !.ran = TRUE,
                                       !.result = CallToolResult(text)]
    /\ UNCHANGED <<tool, cleanVars, compileVars, validateVars, pdfVars, dateVars, utilVars, request>>

\* call_tool without its except branch: the exception leaves it.
exception_propagated(state) == [state EXCEPT !.pc = "raised"]

\* The except branch of call_tool.
exception_rendered(state) ==
    [state EXCEPT !.pc = "done",
                  !.result = CallToolResult(<<"Error: ">> \o state.exc)]

call_tool_except ==
    /\ tool = "call_tool"
    /\ response.pc = "escaped"
    /\ response' = exception_rendered(response)
    /\ UNCHANGED <<tool, cleanVars, compileVars, validateVars, pdfVars, dateVars, utilVars, request>>

\* ------------------------------------------- utils: the extension tables
LATEX_SOURCE_EXTENSIONS == { <<"tex">>, <<"latex">>, <<"ltx">> }
LATEX_AUXILIARY_EXTENSIONS ==
    { <<"aux">>, <<"log">>, <<"out">>, <<"fls">>, <<"fdb_latexmk">>, <<"toc">>,
      <<"lof">>, <<"lot">>, <<"bbl">>, <<"blg">>, <<"nav">>, <<"snm">>,
      <<"vrb">>, <<"idx">>, <<"ilg">>, <<"ind">>, <<"glo">>, <<"gls">>,
      <<"glg">>, <<"synctex", "gz">>, <<"figlist">>, <<"fpl">>,
      <<"makefile">>, <<"run", "xml">> }
LATEX_OUTPUT_EXTENSIONS == { <<"pdf">>, <<"dvi">>, <<"ps">> }
LATEX_PROTECTED_EXTENSIONS ==
    { <<"tex">>, <<"pdf">>, <<"bib">>, <<"sty">>, <<"cls">>, <<"dtx">>,
      <<"ins">>, <<"png">>, <<"jpg">>, <<"jpeg">>, <<"gif">>, <<"svg">>,
      <<"eps">>, <<"ps">>, <<"txt">>, <<"md">>, <<"py">>, <<"sh">>, <<"bat">> }

\* The file names that are classified: two stems with every extension of the
\* four tables, with three extensions in capitals, with an extension of no
\* table, and without extension.
FileNames ==
    { <<base>> \o ext :
        base \in {"paper", "other"},
        ext \in LATEX_SOURCE_EXTENSIONS \cup LATEX_AUXILIARY_EXTENSIONS
                  \cup LATEX_OUTPUT_EXTENSIONS \cup LATEX_PROTECTED_EXTENSIONS
                  \cup { <<"AUX">>, <<"TEX">>, <<"PDF">>, <<"xyz">>, <<>> } }

\* str.lower() on a suffix.
lower(ext) ==
    [i \in 1..Len(ext) |->
        CASE ext[i] = "AUX" -> "aux"
          [] ext[i] = "TEX" -> "tex"
          [] ext[i] = "PDF" -> "pdf"
          [] OTHER -> ext[i]]

\* Whether the suffix of the name is in one of the four tables.
has_known_extension(name) ==
    lower(suffix(name)) \in
        LATEX_SOURCE_EXTENSIONS \cup LATEX_AUXILIARY_EXTENSIONS
          \cup LATEX_OUTPUT_EXTENSIONS \cup LATEX_PROTECTED_EXTENSIONS

is_latex_file(name) == lower(suffix(name)) \in LATEX_SOURCE_EXTENSIONS
is_auxiliary_file(name) == lower(suffix(name)) \in LATEX_AUXILIARY_EXTENSIONS
is_output_file(name) == lower(suffix(name)) \in LATEX_OUTPUT_EXTENSIONS
is_protected_file(name) == lower(suffix(name)) \in LATEX_PROTECTED_EXTENSIONS
\* is_auxiliary_file of tools/cleanup.py.
cleanup_is_auxiliary_file(name) ==
    /\ suffix(name) \in DEFAULT_CLEANUP_EXTENSIONS
    /\ suffix(name) \notin PROTECTED_EXTENSIONS

IdleFileType ==
    [ pc |-> "idle", is_latex_file |-> FALSE, is_auxiliary_file |-> FALSE,
      is_output_file |-> FALSE, is_protected_file |-> FALSE,
      cleanup_is_auxiliary_file |-> FALSE ]

\* The five functions called on one file name.
classify_file ==
    /\ tool = "latex_utils"
    /\ file_type.pc = "idle"
    /\ file_type' =
         [ pc |-> "done",
           is_latex_file |-> is_latex_file(file_name),
           is_auxiliary_file |-> is_auxiliary_file(file_name),
           is_output_file |-> is_output_file(file_name),
           is_protected_file |-> is_protected_file(file_name),
           cleanup_is_auxiliary_file |-> cleanup_is_auxiliary_file(file_name) ]
    /\ UNCHANGED <<tool, cleanVars, compileVars, validateVars, pdfVars, dateVars, serverVars,
                 file_name, latex_text, text_check>>

\* --------------------------------------------- utils: the text helpers
\* Number of lines of a text a text helper is called on.
MaxLines == 4

\* The texts made of brace lines and of lines that begin or end one of two
\* environments.
UtilLines == { OpenBrace, CloseBrace, EscapedOpenBrace, EscapedCloseBrace,
               BeginDoc, EndDoc, BeginAlign, EndAlign }
UtilTexts == UNION { [1..n -> UtilLines] : n \in 0..MaxLines }

\* The matches of OPEN_BRACE (?<!\\)\{ and CLOSE_BRACE (?<!\\)\} in a line, in
\* order: a brace that follows a backslash is no match.
unescaped_braces(line) ==
    CASE line = OpenBrace -> <<"{">>
      [] line = CloseBrace -> <<"}">>
      [] line = EscapedOpenBrace -> <<>>
      [] line = EscapedCloseBrace -> <<>>
      [] OTHER -> <<"{", "}">>

RECURSIVE all_unescaped_braces(_)
all_unescaped_braces(content) ==
    IF content = <<>> THEN <<>>
    ELSE unescaped_braces(Head(content)) \o all_unescaped_braces(Tail(content))

\* The second loop of check_brace_balance: one pop of open_braces for each
\* closing brace, False when the list is empty; open_braces is given by its
\* length, the positions it holds are never read.
RECURSIVE pop_open_braces(_, _)
pop_open_braces(closes, open_braces) ==
    IF closes = <<>> THEN open_braces = 0
    ELSE IF open_braces > 0 THEN pop_open_braces(Tail(closes), open_braces - 1)
    ELSE FALSE

\* check_brace_balance: every opening brace of the content is collected
\* first, then the closing braces are gone through.
check_brace_balance(content) ==
    LET chars == all_unescaped_braces(content) IN
    pop_open_braces(SelectSeq(chars, LAMBDA c : c = "}"),
                    Len(SelectSeq(chars, LAMBDA c : c = "{")))

\* The second loop of find_unmatched_environments: an \end name that equals
\* the last name of begin_stack pops it, any other is appended to unmatched;
\* what is left of begin_stack is appended at the end.
RECURSIVE match_end_names(_, _, _)
match_end_names(ends, begin_stack, unmatched) ==
    IF ends = <<>> THEN unmatched \o begin_stack
    ELSE IF begin_stack # <<>> /\ begin_stack[Len(begin_stack)] = Head(ends)
    THEN match_end_names(Tail(ends), SubSeq(begin_stack, 1, Len(begin_stack) - 1),
                         unmatched)
    ELSE match_end_names(Tail(ends), begin_stack, Append(unmatched, Head(ends)))

\* find_unmatched_environments: every \begin name of the content is stacked
\* first, then the \end names are gone through.
find_unmatched_environments(content) ==
    match_end_names(end_names(content), begin_names(content), <<>>)

IdleTextCheck == [pc |-> "idle", balanced |-> FALSE, unmatched |-> <<>>]

\* check_brace_balance called on the text.
run_check_brace_balance ==
    /\ tool = "latex_text"
    /\ text_check.pc = "idle"
    /\ text_check' = [ pc |-> "balance",
                       balanced |-> check_brace_balance(latex_text),
                       unmatched |-> <<>> ]
    /\ UNCHANGED <<tool, cleanVars, compileVars, validateVars, pdfVars, dateVars, serverVars,
                   file_name, file_type, latex_text>>

\* find_unmatched_environments called on the text.
run_find_unmatched_environments ==
    /\ tool = "latex_text"
    /\ text_check.pc = "idle"
    /\ text_check' = [ pc |-> "environments",
                       balanced |-> FALSE,
                       unmatched |-> find_unmatched_environments(latex_text) ]
    /\ UNCHANGED <<tool, cleanVars, compileVars, validateVars, pdfVars, dateVars, serverVars,
                   file_name, file_type, latex_text>>

\* ------------------------------------------------------- specifications
\* The cleanup variables of a behaviour that calls another tool.
CleanUnused ==
    /\ fs = <<>>
    /\ backupDirs = {}
    /\ clock = 1
    /\ perm = <<>>
    /\ env = <<>>
    /\ args = [ path |-> NonePath, extensions |-> {}, dry_run |-> FALSE,
                recursive |-> FALSE, create_backup |-> FALSE ]
    /\ ncalls = 0
    /\ inv = [i \in Threads |-> IdleCall]

\* The compile variables of a behaviour that calls another tool.
CompileUnused ==
    /\ cargs = [tex_path |-> NonePath, output_dir |-> NonePath, timeout |-> NoTimeout]
    /\ cworld = [outdir |-> FALSE, pdf |-> Absent, log |-> Absent]
    /\ ccalls = 0
    /\ comp = IdleCompile

\* The validate variables of a behaviour that calls another tool.
ValidateUnused ==
    /\ vargs = [file_path |-> NonePath, quick |-> FALSE, strict |-> FALSE]
    /\ vtext = <<>>
    /\ val = IdleValidate

\* The pdf_info variables of a behaviour that calls another tool.
PdfUnused ==
    /\ pargs = [file_path |-> NonePath, include_text |-> FALSE, password |-> NoPassword]
    /\ pdoc = [ access |-> "ok", kind |-> "pdf", encrypted |-> FALSE,
                decrypt |-> "ok", open_to_all |-> FALSE, metadata |-> FALSE,
                pages |-> <<>> ]
    /\ pinfo = IdleInfo

\* The variables of the helpers in a behaviour that calls a tool.
DateUnused == pdf_date = NoDate /\ formatted = IdleDate
ServerUnused ==
    /\ request = [name |-> "", arguments |-> "None", outcome |-> "success",
                  message |-> "boom"]
    /\ response = IdleResponse
UtilUnused ==
    /\ file_name = <<"paper">> /\ file_type = IdleFileType
    /\ latex_text = <<>> /\ text_check = IdleTextCheck
HelperUnused == DateUnused /\ ServerUnused /\ UtilUnused

InitClean ==
    /\ tool = "clean_latex"
    /\ HelperUnused
    /\ CompileUnused
    /\ ValidateUnused
    /\ PdfUnused
    /\ \E present \in SUBSET OptionalSlots :
         fs = [p \in present \cup {InitialSlots[1]} |-> InitialContent(p)]
    /\ backupDirs = {}
    /\ clock = 1
    /\ perm = <<>>
    /\ env = <<>>
    /\ args \in [ path : Targets, extensions : ExtensionArgs, dry_run : BOOLEAN,
                  recursive : BOOLEAN, create_backup : BOOLEAN ]
    /\ ncalls = 0
    /\ inv = [i \in Threads |-> IdleCall]

\* The calls run one after the other, on one thread.
NextClean ==
    \/ clean_latex_begin("t1")
    \/ _process_file_for_cleanup("t1")
    \/ process_file_unlink("t1")
    \/ clean_latex_return("t1")

SpecClean == InitClean /\ [][NextClean]_vars

\* Two clean_latex calls with the same arguments, none a dry run, each run by
\* the dispatcher on an executor thread of its own, in a working directory
\* that holds every file.
InitConcurrent ==
    /\ InitClean
    /\ ~args.dry_run
    /\ args.path \notin {NonePath, ""}
    /\ DOMAIN fs = {InitialSlots[k] : k \in 1..Len(InitialSlots)}

\* A thread runs one call, and the second call begins before the first has
\* ended; the steps of the two calls interleave in every order.
NextConcurrent ==
    \E i \in Threads :
        \/ /\ inv[i].pc = "idle"
           /\ \A j \in Threads : inv[j].pc \notin {"done", "raised"}
           /\ clean_latex_begin(i)
        \/ _process_file_for_cleanup(i)
        \/ process_file_unlink(i)
        \/ clean_latex_return(i)

SpecConcurrent == InitConcurrent /\ [][NextConcurrent]_vars

\* Before the first call the output directory may hold a PDF and a log of an
\* earlier compilation; a directory that is not there holds nothing.
InitCompile ==
    /\ tool = "compile_latex"
    /\ HelperUnused
    /\ CleanUnused
    /\ ValidateUnused
    /\ PdfUnused
    /\ cargs \in [tex_path : TexPaths, output_dir : OutputDirs, timeout : Timeouts]
    /\ cworld \in [outdir : BOOLEAN, pdf : {Absent, 0}, log : {Absent, 0}]
    /\ (cargs.output_dir # NonePath /\ ~cworld.outdir) =>
         (cworld.pdf = Absent /\ cworld.log = Absent)
    /\ ccalls = 0
    /\ comp = IdleCompile

NextCompile ==
    \/ compile_latex_begin
    \/ compile_latex_run
    \/ compile_latex_return

SpecCompile == InitCompile /\ [][NextCompile]_vars

\* validate_latex on the texts of a set; only the file doc.tex is there, a
\* call with another path finds nothing.
InitValidateOn(texts) ==
    /\ tool = "validate_latex"
    /\ HelperUnused
    /\ CleanUnused
    /\ CompileUnused
    /\ PdfUnused
    /\ vargs \in [file_path : ValidatePaths, quick : BOOLEAN, strict : BOOLEAN]
    /\ vtext \in (IF vargs.file_path = "doc.tex" THEN texts \cup {Unreadable}
                  ELSE {<<>>})
    /\ val = IdleValidate

InitValidate == InitValidateOn(Texts)

SpecValidate == InitValidate /\ [][validate_latex]_vars

\* validate_latex on the brace texts.
InitBraces == InitValidateOn(BraceTexts)

SpecBraces == InitBraces /\ [][validate_latex]_vars

\* validate_latex on the package texts.
InitPackages == InitValidateOn(PackageTexts)

SpecPackages == InitPackages /\ [][validate_latex]_vars

InitPdf ==
    /\ tool = "extract_pdf_info"
    /\ HelperUnused
    /\ CleanUnused
    /\ CompileUnused
    /\ ValidateUnused
    /\ pargs \in [file_path : PdfPaths, include_text : BOOLEAN, password : Passwords]
    /\ pdoc \in Documents
    /\ pinfo = IdleInfo

SpecPdf == InitPdf /\ [][extract_pdf_info]_vars

\* _format_pdf_date on the date strings.
InitDates ==
    /\ tool = "_format_pdf_date"
    /\ CleanUnused
    /\ CompileUnused
    /\ ValidateUnused
    /\ PdfUnused
    /\ ServerUnused
    /\ UtilUnused
    /\ pdf_date \in PdfDates
    /\ formatted = IdleDate

SpecDates == InitDates /\ [][format_pdf_date]_vars

\* call_tool on the requests.
InitServer ==
    /\ tool = "call_tool"
    /\ CleanUnused
    /\ CompileUnused
    /\ ValidateUnused
    /\ PdfUnused
    /\ DateUnused
    /\ UtilUnused
    /\ request \in Requests
    /\ response = IdleResponse

NextServer ==
    \/ call_tool_begin
    \/ handle_begin
    \/ handle_return
    \/ call_tool_except

SpecServer == InitServer /\ [][NextServer]_vars

\* The file type functions on the file names.
InitUtils ==
    /\ tool = "latex_utils"
    /\ CleanUnused
    /\ CompileUnused
    /\ ValidateUnused
    /\ PdfUnused
    /\ DateUnused
    /\ ServerUnused
    /\ file_name \in FileNames
    /\ file_type = IdleFileType
    /\ latex_text = <<>>
    /\ text_check = IdleTextCheck

SpecUtils == InitUtils /\ [][classify_file]_vars

\* check_brace_balance and find_unmatched_environments on the texts.
InitTextHelpers ==
    /\ tool = "latex_text"
    /\ CleanUnused
    /\ CompileUnused
    /\ ValidateUnused
    /\ PdfUnused
    /\ DateUnused
    /\ ServerUnused
    /\ file_name = <<"paper">>
    /\ file_type = IdleFileType
    /\ latex_text \in UtilTexts
    /\ text_check = IdleTextCheck

NextTextHelpers ==
    \/ run_check_brace_balance
    \/ run_find_unmatched_environments

SpecTextHelpers == InitTextHelpers /\ [][NextTextHelpers]_vars

\* Every tool: a behaviour calls one of the four tools; validate_latex is
\* called on two sample texts.
SampleTexts ==
    { <<DocClass, BeginDoc, EndDoc>>, <<BeginDoc, CloseBrace>> }

Init ==
    \/ InitClean
    \/ InitCompile
    \/ InitValidateOn(SampleTexts)
    \/ InitPdf

Next ==
    \/ NextClean
    \/ NextCompile
    \/ validate_latex
    \/ extract_pdf_info

Spec == Init /\ [][Next]_vars

\* ------------------------------------------------------- cleanup: claims
Range(q) == {q[k] : k \in 1..Len(q)}
NoDuplicates(q) == Cardinality(Range(q)) = Len(q)
\* The extensions the calls of this behaviour clean.
CallExtensions == cleanup_extensions(args.extensions)
\* Whether a file name ends in an extension: "paper.synctex.gz" ends in
\* ".synctex.gz" and in ".gz".
EndsIn(name, ext) ==
    /\ Len(name) > Len(ext)
    /\ SubSeq(name, Len(name) - Len(ext) + 1, Len(name)) = ext
Running(i) == inv[i].pc \in {"loop", "unlink"}
Returned(i) == inv[i].pc = "done"

\* C1: in a call that is not a dry run, whatever the targeting mode and the
\* extension list, no file with a protected extension is deleted and none is
\* listed in cleaned_files or would_clean_files.
C1_ProtectedNeverRemoved ==
    \A i \in Threads :
      (~args.dry_run /\ inv[i].pc # "idle") =>
        /\ \A p \in DOMAIN inv[i].fs0 :
             suffix(p[2]) \in PROTECTED_EXTENSIONS => exists(p)
        /\ \A p \in Range(inv[i].result.cleaned_files)
                    \cup Range(inv[i].result.would_clean_files) :
             suffix(p[2]) \notin PROTECTED_EXTENSIONS

\* C2: a dry run changes no file and creates no backup directory, even with
\* create_backup; its result has no cleaned file, a count of 0 and
\* backup_created false, and would_clean_files lists, once each, exactly the
\* candidates of the targeting mode that are there to be removed.
C2_DryRunChangesNothing ==
    \A i \in Threads :
      (args.dry_run /\ inv[i].pc # "idle") =>
        /\ fs = inv[i].fs0
        /\ backupDirs = inv[i].dirs0
        /\ inv[i].result.cleaned_files = <<>>
        /\ inv[i].result.cleaned_files_count = 0
        /\ inv[i].result.backup_created = FALSE
        /\ inv[i].result.backup_directory = NoDir
        /\ (Returned(i) /\ inv[i].result.success) =>
             /\ Range(inv[i].result.would_clean_files) =
                  {p \in candidates(args.path, args.recursive, CallExtensions) :
                     exists(p)}
             /\ NoDuplicates(inv[i].result.would_clean_files)
        /\ (Returned(i) /\ ~inv[i].result.success) =>
             inv[i].result.would_clean_files = <<>>

C2_Witness ==
    /\ args.dry_run /\ args.create_backup
    /\ Returned("t1")
    /\ Len(inv["t1"].result.would_clean_files) >= 2

\* C3: after a call with create_backup that is not a dry run and whose backup
\* directory was created, the backup directory holds, for every path of
\* cleaned_files, a file of that name with the content the removed file had.
C3_BackupRestores ==
    \A i \in Threads :
      (Returned(i) /\ inv[i].backup_dir # NoDir) =>
        \A p \in Range(inv[i].result.cleaned_files) :
          /\ exists(<<inv[i].backup_dir, p[2]>>)
          /\ fs[<<inv[i].backup_dir, p[2]>>] = inv[i].fs0[p]

\* C4: a second call with the same arguments, not a dry run, that returns a
\* result removes no file: its cleaned_files is empty and its count is 0.
C4_SecondRunRemovesNothing ==
    (~args.dry_run /\ ncalls >= 2 /\ Returned("t1")) =>
      /\ inv["t1"].result.cleaned_files = <<>>
      /\ inv["t1"].result.cleaned_files_count = 0

\* C5: a call that is not a dry run and in which the removal of some candidate
\* failed still returns success; cleaned_files holds, once each, exactly the
\* candidates whose removal went through, the count is its length, and every
\* candidate whose removal failed is still there and is not listed.
C5_PartialFailure ==
    \A i \in Threads :
      (~args.dry_run /\ inv[i].failed # {}) =>
        /\ inv[i].pc # "raised"
        /\ Returned(i) =>
             /\ inv[i].result.success
             /\ Range(inv[i].result.cleaned_files) = inv[i].attempted \ inv[i].failed
             /\ NoDuplicates(inv[i].result.cleaned_files)
             /\ inv[i].result.cleaned_files_count = Len(inv[i].result.cleaned_files)
             /\ \A f \in inv[i].failed :
                  exists(f) /\ f \notin Range(inv[i].result.cleaned_files)
             /\ \A f \in Range(inv[i].result.cleaned_files) : ~exists(f)

C5_Witness ==
    /\ ~args.dry_run
    /\ Returned("t1")
    /\ inv["t1"].failed # {}
    /\ inv["t1"].result.cleaned_files # <<>>

\* C6: a call on a directory with the default extensions, not a dry run, in
\* which nothing failed, removes exactly the files in the directory (at any
\* depth when recursive) whose name ends in an extension of the default table,
\* and leaves every other file as it was.
C6_DirectoryRemovesExactly ==
    \A i \in Threads :
      ( /\ args.path \in DirTargets /\ args.extensions = {} /\ ~args.dry_run
        /\ Returned(i) /\ inv[i].result.success /\ inv[i].failed = {} ) =>
        LET expected ==
              { p \in DOMAIN inv[i].fs0 :
                  /\ p[1] \in (IF args.recursive
                               THEN (IF args.path = "." THEN {Cwd, Sub} \cup inv[i].dirs0
                                     ELSE {Sub})
                               ELSE {TargetDir(args.path)})
                  /\ \E ext \in DEFAULT_CLEANUP_EXTENSIONS : EndsIn(p[2], ext) }
        IN /\ \A p \in expected : ~exists(p)
           /\ \A p \in DOMAIN inv[i].fs0 \ expected :
                exists(p) /\ fs[p] = inv[i].fs0[p]


\* Whether the creation of the backup directory was tried and failed, and
\* whether the listing of the target directory was tried and failed.
MkdirFailed == "mkdir" \in DOMAIN env /\ ~env["mkdir"]
GlobFailed == "glob" \in DOMAIN env /\ ~env["glob"]

\* C21: a call on a path that is there, with create_backup, that is not a dry
\* run and whose backup directory could not be created does not raise; it goes through its
\* candidates without backup (no backup directory and no copy is made, each
\* candidate is removed or, when its removal fails, left), and it returns
\* backup_created false and backup_directory None, with success unless the
\* listing of the directory failed as well.
C21_BackupFailureContinues ==
    \A i \in Threads :
      ( /\ args.create_backup /\ ~args.dry_run /\ MkdirFailed
        /\ inv[i].pc # "idle"
        /\ (args.path \in FileTargets => TargetFile(args.path) \in DOMAIN inv[i].fs0) )
      =>
        /\ inv[i].pc # "raised"
        /\ inv[i].backup_dir = NoDir
        /\ backupDirs = {}
        /\ DOMAIN fs \subseteq DOMAIN inv[i].fs0
        /\ Returned(i) =>
             /\ inv[i].result.success = ~GlobFailed
             /\ ~inv[i].result.backup_created
             /\ inv[i].result.backup_directory = NoDir
             /\ Range(inv[i].result.cleaned_files) = inv[i].attempted \ inv[i].failed
             /\ \A f \in Range(inv[i].result.cleaned_files) : ~exists(f)
             /\ \A p \in DOMAIN inv[i].fs0 \ inv[i].attempted :
                  exists(p) /\ fs[p] = inv[i].fs0[p]
             /\ (args.path \in DirTargets /\ ~GlobFailed) =>
                  \A p \in DOMAIN inv[i].fs0 :
                    ( /\ p[1] = TargetDir(args.path)
                      /\ suffix(p[2]) \in CallExtensions
                      /\ suffix(p[2]) \notin PROTECTED_EXTENSIONS )
                      => p \in inv[i].attempted

\* The backup directory could not be created and the call returned success
\* with a file removed.
C21_Witness ==
    /\ args.create_backup /\ ~args.dry_run /\ MkdirFailed
    /\ Returned("t1")
    /\ inv["t1"].result.success
    /\ inv["t1"].result.cleaned_files # <<>>
    /\ inv["t1"].result.error_message = "Warning: Backup creation failed"

\* C26: find_auxiliary_files returns the empty list, and raises nothing, when
\* the enumeration of the directory fails: a clean_latex call on a directory
\* whose glob fails gets no candidate from it and so ends as a successful
\* call that cleaned nothing, with no "Cleanup failed" message.
C26_EnumerationFailureGivesNoFiles ==
    \A i \in Threads :
        (Returned(i) /\ args.path \in DirTargets /\ GlobFailed) =>
            /\ inv[i].result.success
            /\ inv[i].result.error_message # "Cleanup failed"
            /\ inv[i].result.cleaned_files = <<>>
            /\ inv[i].result.would_clean_files = <<>>

\* C29: with a backup directory in use, a call deletes a file only when the
\* copy of that file is in the backup directory, under the file's name and
\* with the file's content; a step of the candidate loop in which the copy
\* fails changes no file, and a file the call tried and failed on is still
\* there and is not in cleaned_files.
C29_DeletedOnlyAfterBackup ==
    /\ [][\A i \in Threads :
            (inv'[i] # inv[i] /\ inv[i].backup_dir # NoDir) =>
                /\ \A f \in DOMAIN fs \ DOMAIN fs' :
                     LET dst == <<inv[i].backup_dir, f[2]>> IN
                     /\ dst # f
                     /\ dst \in DOMAIN fs /\ dst \in DOMAIN fs'
                     /\ fs[dst] = fs[f] /\ fs'[dst] = fs[f]
                /\ (inv[i].pc = "loop" /\ inv'[i].pc = "loop"
                      /\ inv'[i].failed # inv[i].failed) => fs' = fs]_vars
    /\ [](\A i \in Threads :
            ((Running(i) \/ Returned(i)) /\ inv[i].backup_dir # NoDir) =>
                \A f \in inv[i].failed :
                    /\ f \notin Range(inv[i].result.cleaned_files)
                    /\ f \in DOMAIN inv[i].fs0 => f \in DOMAIN fs)

\* A call with a backup directory has ended: it removed a file whose copy is
\* in the backup directory, and left a file whose copy failed.
C29_Witness ==
    /\ Returned("t1") /\ inv["t1"].backup_dir # NoDir
    /\ inv["t1"].result.backup_created
    /\ \E f \in Range(inv["t1"].result.cleaned_files) :
         /\ f \notin DOMAIN fs
         /\ <<inv["t1"].backup_dir, f[2]>> \in DOMAIN fs
    /\ \E f \in inv["t1"].failed :
         /\ f \in DOMAIN fs
         /\ <<inv["t1"].backup_dir, f[2]>> \notin DOMAIN fs

\* Whether the file system refused nothing it was asked for.
NothingRefused ==
    /\ \A f \in DOMAIN perm : perm[f] = "ok"
    /\ \A op \in DOMAIN env : env[op]

\* Whether the two calls, one on each thread, have both ended.
BothEnded == \A i \in Threads : inv[i].pc \in {"done", "raised"}

\* C30: two calls that are no dry run and run concurrently on the same target,
\* with a file system that refuses nothing: both return success and neither
\* raises, every file a call tried to clean is deleted in the end, and every
\* deleted file is listed once, in the cleaned_files of one of the two calls.
C30_ConcurrentCallsBothSucceed ==
    (tool = "clean_latex" /\ ~args.dry_run /\ BothEnded /\ NothingRefused) =>
        /\ \A i \in Threads : Returned(i) /\ inv[i].result.success
        /\ \A i \in Threads : \A f \in inv[i].attempted : f \notin DOMAIN fs
        /\ \A i \in Threads : NoDuplicates(inv[i].result.cleaned_files)
        /\ \A i \in Threads : \A f \in DOMAIN inv[i].fs0 \ DOMAIN fs :
             \E j \in Threads :
                /\ f \in Range(inv[j].result.cleaned_files)
                /\ \A k \in Threads \ {j} :
                     f \notin Range(inv[k].result.cleaned_files)

\* ------------------------------------------------------- compile: claims
compile_returned == comp.pc = "done"

\* C7: a completed compile_latex call reports success exactly when the
\* compiler exited with code 0 and the expected PDF exists in the output
\* directory; a successful result carries that PDF path and no error message,
\* every other result carries no output path and a non-empty error message.
C7_SuccessIffExitZeroAndPdf ==
    compile_returned =>
        /\ comp.result.success <=>
             (comp.proc.outcome = "exit" /\ comp.proc.returncode = 0
              /\ cworld.pdf # Absent)
        /\ comp.result.success =>
             /\ comp.result.output_path = pdf_path(cargs.output_dir)
             /\ comp.result.error_message = "None"
        /\ ~comp.result.success =>
             /\ comp.result.output_path = NoOutput
             /\ comp.result.error_message \notin {"None", ""}

\* A compiler that exited with code 0 without leaving a PDF: the call has
\* returned a failed result.
C7_Witness ==
    /\ compile_returned
    /\ comp.proc.outcome = "exit"
    /\ comp.proc.returncode = 0
    /\ cworld.pdf = Absent
    /\ ~comp.result.success

\* C8: once compile_latex has accepted its input path, no exception leaves
\* the call; every later failure is returned as a failed result.
C8_NoExceptionAfterValidation ==
    comp.validated => comp.pc # "raised"


\* C22: after a compiler run that was killed at the timeout the call returns
\* a failed result with the timeout message and an elapsed time, and with the
\* log read as after a normal return: when the log file is there,
\* log_content is its text or the placeholder of a failed read.
C22_TimeoutReadsLog ==
    (compile_returned /\ comp.proc.outcome = "timeout") =>
        /\ ~comp.result.success
        /\ comp.result.error_message = "LaTeX compilation timed out"
        /\ comp.result.compilation_time_seconds
        /\ cworld.log # Absent =>
             comp.result.log_content
               \in { <<"text", cworld.log>>, <<"Could not read log file", Absent>> }

\* C28: a call that returns success returns the PDF that its own compiler
\* run wrote: a run that exits with code 0 and writes no PDF gives a failed
\* result, also when a PDF of an earlier call is at the predicted path.
C28_SuccessMeansFreshPdf ==
    (compile_returned /\ comp.result.success) => cworld.pdf = ccalls

\* ------------------------------------------------------ validate: claims
validate_returned == val.pc = "done"

\* C10: in every ValidationResult that validate_latex returns, is_valid is
\* true exactly when the errors list is empty, error_message is absent
\* exactly when is_valid is true, and a text that only triggers warnings is
\* reported valid.
C10_ValidIffNoErrors ==
    validate_returned =>
        /\ val.result.is_valid <=> (val.result.errors = <<>>)
        /\ (val.result.error_message = NoMessage) <=> val.result.is_valid
        /\ (val.result.errors = <<>> /\ val.result.warnings # <<>>) =>
             val.result.is_valid

\* A text that uses a command without its package and has no error, checked
\* in the default mode: the result is valid and carries the warning.
C10_Witness ==
    /\ validate_returned
    /\ ~vargs.quick /\ ~vargs.strict
    /\ val.result.warnings # <<>>
    /\ val.result.errors = <<>>
    /\ val.result.is_valid
    /\ val.result.error_message = NoMessage

\* C11: the errors list names every \begin{X} of the text that no \end{X}
\* follows as an unclosed environment, and every \end{Y} of the text that no
\* \begin{Y} precedes as an environment ended without begin.
C11_UnmatchedEnvironmentsReported ==
    validate_returned =>
        \A i \in 1..Len(vtext) :
            /\ ( /\ begin_name(vtext[i]) # ""
                 /\ \A j \in (i + 1)..Len(vtext) :
                        end_name(vtext[j]) # begin_name(vtext[i]) ) =>
                 <<"Unclosed environment", begin_name(vtext[i])>>
                     \in Range(val.result.errors)
            /\ ( /\ end_name(vtext[i]) # ""
                 /\ \A j \in 1..(i - 1) :
                        begin_name(vtext[j]) # end_name(vtext[i]) ) =>
                 <<"Environment ended without begin", end_name(vtext[i])>>
                     \in Range(val.result.errors)

\* The number of '{' minus the number of '}' of a text, escaped braces left
\* out.
RECURSIVE NetUnescapedBraces(_)
NetUnescapedBraces(content) ==
    IF content = <<>> THEN 0
    ELSE (CASE Head(content) = OpenBrace -> 1
            [] Head(content) = CloseBrace -> 0 - 1
            [] OTHER -> 0)
         + NetUnescapedBraces(Tail(content))
BraceErrorTexts ==
    { "Unmatched closing brace }", "Unmatched opening braces: unclosed",
      "Unmatched closing braces: extra" }

\* C12: validate_latex reports no brace error exactly when the text has as
\* many '{' as '}', escaped braces not counted.
C12_BraceErrorIffNetNonZero ==
    validate_returned =>
        ( (\A e \in Range(val.result.errors) : e[1] \notin BraceErrorTexts)
          <=> NetUnescapedBraces(vtext) = 0 )

\* The '{' minus the '}' among the first k brace characters of a text.
NetBraces(content, k) ==
    LET chars == all_brace_chars(content) IN
    Cardinality({n \in 1..k : chars[n] = "{"})
    - Cardinality({n \in 1..k : chars[n] = "}"})
\* Every '}' closes an earlier '{' and no '{' is left open.
BalancedInOrder(content) ==
    /\ \A k \in 1..Len(all_brace_chars(content)) : NetBraces(content, k) >= 0
    /\ NetBraces(content, Len(all_brace_chars(content))) = 0
HasStructure(content) ==
    /\ has_line(content, DocClass)
    /\ has_line(content, BeginDoc)
    /\ has_line(content, EndDoc)
\* Every environment name that is begun is ended somewhere in the text, and
\* every name that is ended is begun somewhere.
EnvironmentsPaired(content) ==
    \A i \in 1..Len(content) :
        /\ begin_name(content[i]) # "" => has_end(content, begin_name(content[i]))
        /\ end_name(content[i]) # "" => has_begin(content, end_name(content[i]))

\* C13, as stated: a text with \documentclass, \begin{document} and
\* \end{document} and with balanced braces is valid, with no error, in every
\* mode.
C13_StructuredBalancedIsValid ==
    (validate_returned /\ HasStructure(vtext) /\ BalancedInOrder(vtext)) =>
        (val.result.is_valid /\ val.result.errors = <<>>)

\* C13, amended: a text with \documentclass, \begin{document} and
\* \end{document}, with balanced braces, and in which every environment that
\* is begun is ended and every environment that is ended is begun, is valid,
\* with no error, in every mode.
C13_StructuredBalancedPairedIsValid ==
    ( /\ validate_returned /\ HasStructure(vtext) /\ BalancedInOrder(vtext)
      /\ EnvironmentsPaired(vtext) ) =>
        (val.result.is_valid /\ val.result.errors = <<>>)

\* Such a text, one line longer than the three it must have, checked in
\* strict mode: it is valid and carries a warning.
C13_Witness ==
    /\ validate_returned /\ vargs.strict
    /\ HasStructure(vtext) /\ BalancedInOrder(vtext) /\ EnvironmentsPaired(vtext)
    /\ Len(vtext) = 4
    /\ val.result.is_valid
    /\ val.result.warnings # <<>>

\* The errors of a result whose text is the given one.
ErrorsWithText(text) ==
    SelectSeq(val.result.errors, LAMBDA e : e[1] = text)

\* C23: the brace errors give the net count over the whole text: a text with
\* more '{' than '}' has one error "Unmatched opening braces: N unclosed"
\* with N the difference, a text with more '}' than '{' has one error
\* "Unmatched closing braces: M extra" with M the difference, and the error
\* "Unmatched closing brace }" is there at most once.
C23_BraceErrorsGiveNetCount ==
    validate_returned =>
        LET net == NetBraces(vtext, Len(all_brace_chars(vtext))) IN
        /\ net > 0 =>
             ErrorsWithText("Unmatched opening braces: unclosed")
               = << <<"Unmatched opening braces: unclosed", ToString(net)>> >>
        /\ net < 0 =>
             ErrorsWithText("Unmatched closing braces: extra")
               = << <<"Unmatched closing braces: extra", ToString(0 - net)>> >>
        /\ Len(ErrorsWithText("Unmatched closing brace }")) <= 1

\* The entries of the table of package warnings: the command or environment,
\* and the packages of which one must be declared.
PackageTable ==
    { <<"tikzpicture", {"tikz"}>>, <<"includegraphics", {"graphicx"}>>,
      <<"href", {"hyperref"}>>, <<"url", {"url", "hyperref"}>>,
      <<"lstlisting", {"listings"}>>, <<"algorithm", {"algorithm"}>>,
      <<"align", {"amsmath"}>>, <<"gather", {"amsmath"}>>,
      <<"multirow", {"multirow"}>>, <<"multicolumn", {"array", "tabularx"}>> }
\* Whether a line is \usepackage{name}.
Declares(line, name) == line = "\\usepackage{" \o name \o "}"

\* C24: without quick, the warning of a table entry is there exactly when
\* its command or environment is used in the text and no \usepackage
\* declares one of the packages of the entry; with quick there is no such
\* warning; and no such finding is among the errors.
C24_PackageWarningIffUndeclared ==
    validate_returned =>
        /\ \A entry \in PackageTable :
             LET warned ==
                   <<"Command/environment used but package not included", entry[1]>>
                     \in Range(val.result.warnings)
                 used == \E i \in 1..Len(vtext) : used_command(vtext[i]) = entry[1]
                 declared ==
                   \E i \in 1..Len(vtext), name \in entry[2] : Declares(vtext[i], name)
             IN IF vargs.quick THEN ~warned
                ELSE warned <=> (used /\ ~declared)
        /\ \A e \in Range(val.result.errors) :
             e[1] # "Command/environment used but package not included"

\* ------------------------------------------------------ pdf_info: claims
Digits == {"0", "1", "2", "3", "4", "5", "6", "7", "8", "9"}
AllDigits(str) == \A i \in 1..Len(str) : str[i] \in Digits
\* The date string without its prefix D:.
DateBody(date) ==
    IF Len(date) >= 2 /\ date[1] = "D" /\ date[2] = ":"
       THEN SubSeq(date, 3, Len(date)) ELSE date
\* The ISO form of the date and time fields of a body YYYYMMDD[HHMMSS].
IsoDate(body) ==
    SubSeq(body, 1, 4) \o <<"-">> \o SubSeq(body, 5, 6) \o <<"-">>
      \o SubSeq(body, 7, 8)
IsoTime(body) ==
    SubSeq(body, 9, 10) \o <<":">> \o SubSeq(body, 11, 12) \o <<":">>
      \o SubSeq(body, 13, 14)
\* Whether the rest of a date string is an offset +HH'MM' or -HH'MM'.
IsOffset(rest) ==
    /\ Len(rest) = 7
    /\ rest[1] \in {"+", "-"}
    /\ rest[4] = "'" /\ rest[7] = "'"
    /\ {rest[2], rest[3], rest[5], rest[6]} \subseteq Digits

InRange(pair, lo, hi) ==
    /\ Len(pair) = 2 /\ AllDigits(pair)
    /\ \E n \in lo..hi :
         pair = << CHOOSE c \in Digits : ToString(n \div 10) = c,
                   CHOOSE c \in Digits : ToString(n % 10) = c >>
\* Whether the body of a date string can be parsed as a date (and a time):
\* digits, with the month in 01..12, the day in 01..31, the hour in 00..23,
\* the minute and the second in 00..59.
Parseable(body) ==
    /\ Len(body) >= 8
    /\ AllDigits(SubSeq(body, 1, 8))
    /\ InRange(SubSeq(body, 5, 6), 1, 12)
    /\ InRange(SubSeq(body, 7, 8), 1, 31)
    /\ Len(body) >= 14 =>
         /\ InRange(SubSeq(body, 9, 10), 0, 23)
         /\ InRange(SubSeq(body, 11, 12), 0, 59)
         /\ InRange(SubSeq(body, 13, 14), 0, 59)

\* C15: a date string of eight characters or more that cannot be parsed (a
\* month 13, a month that is no number) is returned as it was given, prefix
\* D: included.
C15_UnparseableReturnedUnchanged ==
    ( /\ formatted.pc = "done"
      /\ pdf_date # NoDate
      /\ Len(DateBody(pdf_date)) >= 8
      /\ ~Parseable(DateBody(pdf_date)) )
        => formatted.value = pdf_date

\* Whether the extract_pdf_info call has returned a result read from doc.pdf,
\* a file that the reader takes for a PDF.
pdf_returned == pinfo.pc = "done" /\ pdoc.kind = "pdf"

\* C16: a successful result has one page_dimensions entry for each page, in
\* page order, the default 612 x 792 pt for a page whose box cannot be read;
\* text_content is None without include_text and has otherwise one entry for
\* each page, "" for a page whose text cannot be extracted; and the pages
\* that fail never make the result of a readable document a failed one.
C16_PerPageFailuresIsolated ==
    pdf_returned =>
        LET result == pinfo.result
            pages == pdoc.pages
        IN /\ result.success =>
                /\ result.page_count = Len(pages)
                /\ Len(result.page_dimensions) = result.page_count
                /\ \A i \in 1..Len(pages) :
                     result.page_dimensions[i]
                       = IF pages[i].box_ok THEN MediaboxDimensions
                         ELSE [width |-> 612, height |-> 792, unit |-> "pt"]
                /\ ~pargs.include_text => result.text_content = NoText
                /\ pargs.include_text =>
                     /\ result.text_content # NoText
                     /\ Len(result.text_content) = result.page_count
                     /\ \A i \in 1..Len(pages) :
                          (result.text_content[i] = "") = ~pages[i].text_ok
           /\ ~pdoc.encrypted => result.success

\* A successful result with text for a document of two pages: the box and the
\* text of the first page could not be read, those of the second could.
C16_Witness ==
    /\ pdf_returned
    /\ pinfo.result.success
    /\ pargs.include_text
    /\ pdoc.pages = << [box_ok |-> FALSE, text_ok |-> FALSE],
                       [box_ok |-> TRUE, text_ok |-> TRUE] >>
    /\ pinfo.result.text_content = <<"", "text">>

\* C17: with an encrypted document and a password, a decryption that does
\* not succeed (decrypt raises, or decrypt reports that the password is
\* wrong) gives a failed result with is_encrypted, the message "Failed to
\* decrypt PDF", no pages, no dimensions and no metadata.
C17_FailedDecryptionReported ==
    ( /\ pdf_returned
      /\ pdoc.encrypted
      /\ pargs.password # NoPassword
      /\ pdoc.decrypt # "ok" )
        => /\ ~pinfo.result.success
           /\ pinfo.result.is_encrypted
           /\ pinfo.result.error_message = "Failed to decrypt PDF"
           /\ pinfo.result.page_count = 0
           /\ pinfo.result.page_dimensions = <<>>
           /\ ~pinfo.result.metadata

\* C18: with an encrypted document and no password the call returns a
\* successful result with is_encrypted.
C18_EncryptedWithoutPasswordSucceeds ==
    (pdf_returned /\ pdoc.encrypted /\ pargs.password = NoPassword)
        => (pinfo.result.success /\ pinfo.result.is_encrypted)

\* ------------------------------------------------------- server: claims
\* Whether call_tool has returned a CallToolResult with one text item.
OneTextReturned == response.pc = "done" /\ Len(response.result) = 1

TypesHeld ==
    Cardinality({ k \in {"is_latex_file", "is_auxiliary_file", "is_output_file",
                         "is_protected_file"} : file_type[k] })
Disjoint(A, B) == A \cap B = {}

\* C20 as stated: the four extension tables are pairwise disjoint, at most
\* one of the four file type functions holds of a path, and no file with a
\* protected extension is auxiliary for either is_auxiliary_file.
C20_FourDisjointClasses ==
    /\ Disjoint(LATEX_AUXILIARY_EXTENSIONS, LATEX_PROTECTED_EXTENSIONS)
    /\ Disjoint(LATEX_AUXILIARY_EXTENSIONS, LATEX_OUTPUT_EXTENSIONS)
    /\ Disjoint(LATEX_AUXILIARY_EXTENSIONS, LATEX_SOURCE_EXTENSIONS)
    /\ Disjoint(LATEX_SOURCE_EXTENSIONS, LATEX_OUTPUT_EXTENSIONS)
    /\ Disjoint(LATEX_PROTECTED_EXTENSIONS, LATEX_SOURCE_EXTENSIONS)
    /\ Disjoint(LATEX_PROTECTED_EXTENSIONS, LATEX_OUTPUT_EXTENSIONS)
    /\ file_type.pc = "done" =>
         /\ TypesHeld <= 1
         /\ file_type.is_protected_file =>
              (~file_type.is_auxiliary_file /\ ~file_type.cleanup_is_auxiliary_file)

\* C20 amended: the auxiliary, source and output tables are pairwise
\* disjoint and the auxiliary table is disjoint from the protected one, which
\* shares .tex with the source table and .pdf and .ps with the output table;
\* at most one of is_latex_file, is_auxiliary_file, is_output_file holds of a
\* path, and no file with a protected extension is auxiliary for either
\* is_auxiliary_file.
C20_ProtectedOverlapsSourceAndOutput ==
    /\ Disjoint(LATEX_AUXILIARY_EXTENSIONS, LATEX_PROTECTED_EXTENSIONS)
    /\ Disjoint(LATEX_AUXILIARY_EXTENSIONS, LATEX_OUTPUT_EXTENSIONS)
    /\ Disjoint(LATEX_AUXILIARY_EXTENSIONS, LATEX_SOURCE_EXTENSIONS)
    /\ Disjoint(LATEX_SOURCE_EXTENSIONS, LATEX_OUTPUT_EXTENSIONS)
    /\ LATEX_PROTECTED_EXTENSIONS \cap LATEX_SOURCE_EXTENSIONS = { <<"tex">> }
    /\ LATEX_PROTECTED_EXTENSIONS \cap LATEX_OUTPUT_EXTENSIONS
         = { <<"pdf">>, <<"ps">> }
    /\ file_type.pc = "done" =>
         /\ TypesHeld <= (IF file_type.is_protected_file THEN 2 ELSE 1)
         /\ ~(file_type.is_latex_file /\ file_type.is_output_file)
         /\ file_type.is_protected_file =>
              (~file_type.is_auxiliary_file /\ ~file_type.cleanup_is_auxiliary_file)

\* paper.tex has been classified: it is a LaTeX file and a protected file.
C20_Witness ==
    /\ file_type.pc = "done"
    /\ file_name = <<"paper", "tex">>
    /\ file_type.is_latex_file
    /\ file_type.is_protected_file
    /\ ~file_type.is_auxiliary_file

\* The number of lines that begin the environment of a name, less the
\* number that end it, among the first k lines of a text.
OpenOfName(content, name, k) ==
    Cardinality({n \in 1..k : begin_name(content[n]) = name})
    - Cardinality({n \in 1..k : end_name(content[n]) = name})
\* Every \end of a name has a \begin of that name before it as its partner and
\* every \begin of the name has an \end after it.
NamePaired(content, name) ==
    /\ \A k \in 1..Len(content) : OpenOfName(content, name, k) >= 0
    /\ OpenOfName(content, name, Len(content)) = 0
\* Each \begin{name} is closed by its own \end{name}: read in order, an \end
\* closes the innermost open environment and bears its name, and none is left
\* open.
RECURSIVE ClosedByOwnEnd(_, _)
ClosedByOwnEnd(content, open) ==
    IF content = <<>> THEN open = <<>>
    ELSE IF begin_name(Head(content)) # ""
    THEN ClosedByOwnEnd(Tail(content), Append(open, begin_name(Head(content))))
    ELSE IF end_name(Head(content)) # ""
    THEN /\ open # <<>>
         /\ open[Len(open)] = end_name(Head(content))
         /\ ClosedByOwnEnd(Tail(content), SubSeq(open, 1, Len(open) - 1))
    ELSE ClosedByOwnEnd(Tail(content), open)

\* C25: find_unmatched_environments returns the empty list for a text in
\* which each \begin{name} is closed by its own \end{name}, nested or side by
\* side, and a name is in the list it returns only if a \begin or an \end of
\* that name has no partner.
C25_PairedEnvironmentsGiveEmptyList ==
    text_check.pc = "environments" =>
        /\ ClosedByOwnEnd(latex_text, <<>>) => text_check.unmatched = <<>>
        /\ \A name \in Range(text_check.unmatched) : ~NamePaired(latex_text, name)

\* Reading the unescaped braces of a text in order, every '}' closes an
\* earlier '{' that is still open, and no '{' is left open at the end.
UnescapedBalancedInOrder(content) ==
    LET chars == all_unescaped_braces(content)
        net(k) == Cardinality({n \in 1..k : chars[n] = "{"})
                  - Cardinality({n \in 1..k : chars[n] = "}"})
    IN /\ \A k \in 1..Len(chars) : net(k) >= 0
       /\ net(Len(chars)) = 0
HasEscapedBrace(content) ==
    has_line(content, EscapedOpenBrace) \/ has_line(content, EscapedCloseBrace)

\* C27: check_brace_balance returns true exactly when the unescaped braces of
\* the text are balanced in order, and on a text without escaped braces it
\* returns true exactly when the brace check of validate_latex gives no error.
C27_BalancedExactlyWhenInOrder ==
    text_check.pc = "balance" =>
        /\ text_check.balanced <=> UnescapedBalancedInOrder(latex_text)
        /\ ~HasEscapedBrace(latex_text) =>
             (text_check.balanced <=> brace_errors(latex_text) = <<>>)

\* ----------------------------------------------------- every tool: claims
\* The path argument of the latest clean_latex call of thread i named nothing
\* when the call began.
clean_rejected(i) ==
    \/ args.path \in {NonePath, ""}
    \/ args.path \in FileTargets /\ TargetFile(args.path) \notin DOMAIN inv[i].fs0

\* C9: a call of one of the four operations with a null, empty or
\* non-existent path (for validate_latex also with quick and strict both
\* set) raises the operation's own error type and has done no work: no file
\* was read or deleted, no output or backup directory was created, and no
\* compiler process was started.
C9_InvalidInputRaisesBeforeWork ==
    /\ \A i \in Threads :
         (inv[i].pc # "idle" /\ clean_rejected(i)) =>
            /\ inv[i].pc = "raised"
            /\ inv[i].exc = "CleanupError"
            /\ fs = inv[i].fs0
            /\ backupDirs = inv[i].dirs0
    /\ (comp.pc # "idle" /\ cargs.tex_path \in {NonePath, "", "missing.tex"}) =>
            /\ comp.pc = "raised"
            /\ comp.exc = "CompilationError"
            /\ cworld = comp.world0
            /\ comp.proc.outcome = "none"
    /\ (val.pc # "idle" /\ (\/ vargs.file_path \in {NonePath, "", "missing.tex"}
                            \/ vargs.quick /\ vargs.strict)) =>
            /\ val.pc = "raised"
            /\ val.exc = "ValidationError"
            /\ ~val.read
    /\ (pinfo.pc # "idle" /\ pargs.file_path \in {NonePath, "", "missing.pdf"}) =>
            /\ pinfo.pc = "raised"
            /\ pinfo.exc = "PDFInfoError"
            /\ ~pinfo.opened

\* clean_latex has rejected the path of a file that is not there, in a call
\* that asked for a backup: the call raised and there is no backup directory.
C9_Witness ==
    /\ inv["t1"].pc = "raised"
    /\ args.path = "paper.aux"
    /\ args.create_backup /\ ~args.dry_run
    /\ backupDirs = {}

\* The other three operations have rejected a call: compile_latex the null
\* path, validate_latex an existing file with quick and strict both set,
\* extract_pdf_info the empty path.
C9_RejectedCompile ==
    comp.pc = "raised" /\ cargs.tex_path = NonePath /\ cargs.output_dir = "out"
C9_RejectedValidate ==
    val.pc = "raised" /\ vargs.file_path = "doc.tex" /\ vargs.quick /\ vargs.strict
C9_RejectedPdf ==
    pinfo.pc = "raised" /\ pargs.file_path = ""

====
